---- MODULE Spec2Model ----
(***************************************************************************)
(* Model of the metrics collector of stats-io                              *)
(* (src-tauri/src/metrics/collector/mod.rs), the process-wide collector    *)
(* instance (src-tauri/src/metrics/mod.rs) and the commands that drive it  *)
(* (src-tauri/src/commands/metrics.rs); and of the bottleneck rule engine  *)
(* (src-tauri/src/analysis/rules/mod.rs, advanced.rs) behind the analysis  *)
(* command (src-tauri/src/commands/analysis.rs).                           *)
(*                                                                         *)
(* In the collector, numbers of type f64 are fixed-point integers with two *)
(* decimals: the integer v stands for v / 100.  In the rule engine, which  *)
(* computes with them, they are ratios n / d in lowest terms, with 1/0 and *)
(* -1/0 the infinities and 0/0 the value that is not a number.  A Rust     *)
(* Option is a sequence of length at most one: <<>> is None, <<v>> is      *)
(* Some(v).                                                                *)
(***************************************************************************)
EXTENDS Integers, Sequences, FiniteSets, TLC

----------------------------------------------------------------------------
(* Bounds of the model *)

\* Number of sampling tasks tokio::spawn may create (successful start() calls).
MaxTasks == 2
\* Number of ticks, over all tasks, that pass the stop check and collect.
MaxTicks == 2
\* The same, in the specification that draws every result of every provider.
MaxCollectTicks == 1
\* Number of broadcast receivers (subscribe() calls).
MaxSubs == 2
\* Number of commands that read the buffer at a time.
MaxReaders == 2
\* buffer_size of the collector's config; the command layer passes 600
\* (commands/metrics.rs:17), scaled down here.
BufferSize == 2
\* Capacity of the broadcast channel; the collector passes 100
\* (collector/mod.rs:68), scaled down here.
ChannelCapacity == 1
\* Largest bound of a range query.
MaxQueryTime == 2

\* sampling_interval_ms when the command gets None (commands/metrics.rs:16).
DefaultSamplingIntervalMs == 1000

Tasks == 1..MaxTasks
Subs == 1..MaxSubs
Readers == 1..MaxReaders

----------------------------------------------------------------------------
(* Option and sequence helpers *)

None == <<>>
Some(v) == <<v>>
IsSome(o) == Len(o) = 1
UnwrapOr(o, d) == IF IsSome(o) THEN o[1] ELSE d

Min(a, b) == IF a < b THEN a ELSE b

\* The last n elements of s.
LastN(s, n) == SubSeq(s, Len(s) - n + 1, Len(s))

RECURSIVE Flatten(_)
Flatten(ss) == IF ss = <<>> THEN <<>> ELSE Head(ss) \o Flatten(Tail(ss))

----------------------------------------------------------------------------
(* Samples and provider results *)

MetricSample(ts, mt, v, u, src) ==
    [timestamp |-> ts, metric_type |-> mt, value |-> v, unit |-> u,
     source_component |-> src]

\* format!("CPU Core {}", idx) for the core indices the model uses.
CoreLabel(idx) == <<"CPU Core 0", "CPU Core 1">>[idx + 1]

ProviderErr == [ok |-> FALSE]

CpuOk(overall, perCore, temp) ==
    [ok |-> TRUE, overall_utilization |-> overall,
     per_core_utilization |-> perCore, temperature |-> temp]
GpuOk(util, vram) == [ok |-> TRUE, utilization |-> util, vram_used_mb |-> vram]
MemoryOk(used, total, swap) ==
    [ok |-> TRUE, used_mb |-> used, total_mb |-> total, swap_used_mb |-> swap]
StorageOk(rd, wr, qd) ==
    [ok |-> TRUE, read_throughput_mb_per_s |-> rd,
     write_throughput_mb_per_s |-> wr, queue_depth |-> qd]

\* Results a provider query may return: an error or a reading.
CpuResults ==
    {ProviderErr, CpuOk(50, <<50>>, None), CpuOk(50, <<50>>, Some(6000))}
GpuResults == {ProviderErr, GpuOk(0, None), GpuOk(80, Some(1024))}
MemoryResults ==
    {ProviderErr, MemoryOk(1, 2, None), MemoryOk(1, 2, Some(1))}
StorageResults ==
    {ProviderErr, StorageOk(0, 0, None), StorageOk(100, 0, Some(1)),
     StorageOk(0, 100, None)}

\* A smaller choice of results, for the specifications that are not about
\* the providers: batches of one or two samples.
FewCpuResults == {ProviderErr}
FewGpuResults == {ProviderErr}
FewMemoryResults == {MemoryOk(1, 2, None), MemoryOk(1, 2, Some(1))}
FewStorageResults == {ProviderErr}

\* The samples the first processor query adds to the batch.
CpuSamples(ts, r) ==
    IF r.ok
    THEN <<MetricSample(ts, "CpuUtilization", r.overall_utilization * 100,
                        "percent", "CPU")>>
         \o [k \in 1..Len(r.per_core_utilization) |->
               MetricSample(ts, "CpuUtilizationPerCore",
                            r.per_core_utilization[k] * 100, "percent",
                            CoreLabel(k - 1))]
    ELSE <<>>

GpuSamples(ts, r) ==
    IF r.ok
    THEN (IF r.utilization > 0
          THEN <<MetricSample(ts, "GpuUtilization", r.utilization * 100,
                              "percent", "GPU")>>
          ELSE <<>>)
         \o (IF IsSome(r.vram_used_mb)
             THEN <<MetricSample(ts, "GpuVramUsage", r.vram_used_mb[1] * 100,
                                 "MB", "GPU")>>
             ELSE <<>>)
    ELSE <<>>

MemorySamples(ts, r) ==
    IF r.ok
    THEN <<MetricSample(ts, "MemoryUsage",
                        ((r.used_mb * 100) \div r.total_mb) * 100,
                        "percent", "Memory")>>
         \o (IF IsSome(r.swap_used_mb)
             THEN <<MetricSample(ts, "MemorySwapUsage", r.swap_used_mb[1] * 100,
                                 "MB", "Memory")>>
             ELSE <<>>)
    ELSE <<>>

StorageSamples(ts, r) ==
    IF r.ok
    THEN (IF r.read_throughput_mb_per_s > 0
          THEN <<MetricSample(ts, "StorageReadThroughput",
                              r.read_throughput_mb_per_s, "MB/s", "Storage")>>
          ELSE <<>>)
         \o (IF r.write_throughput_mb_per_s > 0
             THEN <<MetricSample(ts, "StorageWriteThroughput",
                                 r.write_throughput_mb_per_s, "MB/s", "Storage")>>
             ELSE <<>>)
         \o (IF IsSome(r.queue_depth)
             THEN <<MetricSample(ts, "StorageQueueDepth", r.queue_depth[1] * 100,
                                 "requests", "Storage")>>
             ELSE <<>>)
    ELSE <<>>

\* The sample the second processor query adds to the batch.
TemperatureSamples(ts, r) ==
    IF r.ok /\ IsSome(r.temperature)
    THEN <<MetricSample(ts, "Temperature", r.temperature[1], "Celsius", "CPU")>>
    ELSE <<>>

----------------------------------------------------------------------------
(* State *)

VARIABLES
    METRICS_COLLECTOR, \* the OnceLock: None, or Some(config of the collector)
    running,           \* MetricsCollector.running
    buffer,            \* MetricsCollector.buffer, head first
    bufLock,           \* writer of the buffer's RwLock: 0, or the task holding it
    reading,           \* readers of the buffer's RwLock: the read each one makes
    spawned,           \* number of tasks tokio::spawn has created
    interval,          \* each task's sampling_interval_ms, read at its spawn
    pc,                \* position of each sampling task
    samples,           \* each task's local batch
    timestamp,         \* each task's local timestamp
    idx,               \* each task's position in the append loop
    outcome,           \* history: per task, the results of its last tick's queries
    now,               \* the clock Utc::now() reads
    nticks,            \* ticks that passed the stop check
    result,            \* what the last command returned
    tail,              \* broadcast channel: number of batches stored so far
    ring,              \* broadcast channel: the batches still retained
    cursor,            \* per receiver: next position to read, -1 before subscribe
    received,          \* per receiver: the batches recv returned, in order
    missed,            \* per receiver: batches skipped by RecvError::Lagged
    subAt,             \* per receiver: number of sends before it subscribed
    rd,                \* what the last read (get_buffer / range) returned
    appended,          \* history: the ticks' batches in the order of their appends
    published,         \* history: the ticks' batches in the order of their sends
    stopMark,          \* history: Len(appended) when running last became false
    metrics,           \* the samples handed to the analysis command
    analysis,          \* what the last analysis call got and returned
    runs,              \* the two runs handed to the comparison command
    comparison,        \* what the last comparison call returned
    sessions_dir,      \* the sessions directory: None, or Some(its files)
    policy,            \* the retention policy handed to the retention calls
    retention          \* what the retention calls returned

vars == <<METRICS_COLLECTOR, running, buffer, bufLock, reading, spawned,
          interval, pc, samples,
          timestamp, idx, outcome, now, nticks, result, tail, ring, cursor,
          received, missed, subAt, rd, appended, published, stopMark,
          metrics, analysis, runs, comparison, sessions_dir, policy,
          retention>>

collectorVars ==
    <<METRICS_COLLECTOR, running, spawned, interval, result, stopMark>>
taskVars == <<pc, samples, timestamp, idx, outcome, now, nticks>>
bufferVars == <<buffer, bufLock, reading, appended>>
channelVars == <<tail, ring, published>>
receiverVars == <<cursor, received, missed, subAt>>
compareVars == <<runs, comparison>>
retentionVars == <<sessions_dir, policy, retention>>
engineVars == <<metrics, analysis, compareVars, retentionVars>>

NoResult == [op |-> "none", ok |-> TRUE, msg |-> ""]
NoRead == [op |-> "none", start |-> 0, end |-> 0, value |-> <<>>]
NoAnalysis == [op |-> "none"]
NoComparison == [op |-> "none"]
NoRetention == [stats |-> None, cleanup |-> None]

\* The collector before its construction, the clock at its origin, and no
\* analysis call made yet.
Constructed ==
    /\ METRICS_COLLECTOR = None
    /\ running = FALSE
    /\ buffer = <<>>
    /\ bufLock = 0
    /\ reading = [r \in Readers |-> NoRead]
    /\ spawned = 0
    /\ interval = [t \in Tasks |-> 0]
    /\ pc = [t \in Tasks |-> "unspawned"]
    /\ samples = [t \in Tasks |-> <<>>]
    /\ timestamp = [t \in Tasks |-> 0]
    /\ idx = [t \in Tasks |-> 0]
    /\ outcome = [t \in Tasks |-> {}]
    /\ now = 0
    /\ nticks = 0
    /\ result = NoResult
    /\ tail = 0
    /\ ring = <<>>
    /\ cursor = [s \in Subs |-> -1]
    /\ received = [s \in Subs |-> <<>>]
    /\ missed = [s \in Subs |-> 0]
    /\ subAt = [s \in Subs |-> 0]
    /\ rd = NoRead
    /\ appended = <<>>
    /\ published = <<>>
    /\ stopMark = 0
    /\ analysis = NoAnalysis
    /\ comparison = NoComparison
    /\ retention = NoRetention

\* No runs to compare, and no sessions directory with the default policy
\* (retention/mod.rs:22-30).
NoRuns == runs = <<>>
NoSessions ==
    /\ sessions_dir = None
    /\ policy = [retention_days |-> 90, auto_cleanup_enabled |-> FALSE,
                 min_sessions_to_keep |-> 10]

Init ==
    /\ Constructed
    /\ metrics = <<>>
    /\ NoRuns
    /\ NoSessions

Initialized == IsSome(METRICS_COLLECTOR)
config == METRICS_COLLECTOR[1]

----------------------------------------------------------------------------
(* The collector's operations *)

StartOk == [op |-> "start", ok |-> TRUE, msg |-> ""]
AlreadyRunning ==
    [op |-> "start", ok |-> FALSE, msg |-> "Collector already running"]
StopOk == [op |-> "stop", ok |-> TRUE, msg |-> ""]
NotInitialized(op) ==
    [op |-> op, ok |-> FALSE, msg |-> "Metrics collector not initialized"]

\* Variant: every call replaces the collector.
init_replacing(cfg) == Some(cfg)

\* init_metrics_collector: OnceLock::get_or_init keeps the first value.
init_metrics_collector(cfg) ==
    IF METRICS_COLLECTOR = None THEN Some(cfg) ELSE METRICS_COLLECTOR

\* Variant: start without the test of the flag.
startUnguarded(maxTasks) ==
    /\ spawned < maxTasks
    /\ running' = TRUE
    /\ spawned' = spawned + 1
    /\ pc' = [pc EXCEPT ![spawned + 1] = "tick"]
    /\ interval' = [interval EXCEPT ![spawned + 1] =
                        METRICS_COLLECTOR'[1].sampling_interval_ms]
    /\ result' = StartOk
    /\ UNCHANGED stopMark

\* MetricsCollector::start.  The flag is tested and set under the mutex in
\* one critical section; tokio::spawn follows with no suspension point in
\* between and the new task touches nothing before its first tick, so the
\* spawn is part of the same step.  maxTasks bounds the tasks of the model.
start(maxTasks) ==
    IF running
    THEN /\ result' = AlreadyRunning
         /\ UNCHANGED <<running, spawned, interval, pc, stopMark>>
    ELSE /\ spawned < maxTasks
         /\ running' = TRUE
         /\ spawned' = spawned + 1
         /\ pc' = [pc EXCEPT ![spawned + 1] = "tick"]
         /\ interval' = [interval EXCEPT ![spawned + 1] =
                             METRICS_COLLECTOR'[1].sampling_interval_ms]
         /\ result' = StartOk
         /\ UNCHANGED stopMark

\* MetricsCollector::stop.
stop ==
    /\ running' = FALSE
    /\ stopMark' = IF running THEN Len(appended) ELSE stopMark
    /\ UNCHANGED <<spawned, interval, pc>>

\* The start command: builds the config, initialises the process-wide
\* collector if there is none yet, and starts it.
start_metrics_collection(sampling_interval_ms, maxTasks) ==
    /\ METRICS_COLLECTOR' = init_metrics_collector(
           [sampling_interval_ms |->
                UnwrapOr(sampling_interval_ms, DefaultSamplingIntervalMs),
            buffer_size |-> BufferSize])
    /\ start(maxTasks)
    /\ UNCHANGED <<samples, timestamp, idx, outcome, now, nticks>>
    /\ UNCHANGED <<bufferVars, channelVars, receiverVars, rd, engineVars>>

\* The stop command.
stop_metrics_collection ==
    /\ IF Initialized
       THEN stop /\ result' = StopOk
       ELSE /\ result' = NotInitialized("stop")
            /\ UNCHANGED <<running, spawned, interval, pc, stopMark>>
    /\ UNCHANGED <<METRICS_COLLECTOR, samples, timestamp, idx, outcome, now,
                   nticks>>
    /\ UNCHANGED <<bufferVars, channelVars, receiverVars, rd, engineVars>>

----------------------------------------------------------------------------
(* The sampling task: the loop of the future start() spawns *)

\* interval.tick() returns and the task finds the flag cleared: break.
TickStop(t) ==
    /\ pc[t] = "tick"
    /\ ~running
    /\ pc' = [pc EXCEPT ![t] = "exited"]
    /\ UNCHANGED <<samples, timestamp, idx, outcome, now, nticks>>
    /\ UNCHANGED <<METRICS_COLLECTOR, running, spawned, interval, result, stopMark>>
    /\ UNCHANGED <<bufferVars, channelVars, receiverVars, rd, engineVars>>

\* interval.tick() returns and the flag is set: the tick begins with an
\* empty batch and the timestamp Utc::now() gives (the clock has advanced
\* since the last reading).  maxTicks bounds the ticks of the model.
TickRun(t, maxTicks) ==
    /\ pc[t] = "tick"
    /\ running
    /\ nticks < maxTicks
    /\ nticks' = nticks + 1
    /\ now' = now + 1
    /\ timestamp' = [timestamp EXCEPT ![t] = now + 1]
    /\ samples' = [samples EXCEPT ![t] = <<>>]
    /\ outcome' = [outcome EXCEPT ![t] = {}]
    /\ pc' = [pc EXCEPT ![t] = "cpu"]
    /\ UNCHANGED idx
    /\ UNCHANGED <<METRICS_COLLECTOR, running, spawned, interval, result, stopMark>>
    /\ UNCHANGED <<bufferVars, channelVars, receiverVars, rd, engineVars>>

\* Variant: an Err of the provider ends the task (the error is propagated
\* out of the loop instead of being skipped).
QueryOrAbort(t, at, next, outcomes) ==
    /\ pc[t] = at
    /\ \E o \in outcomes :
          /\ samples' = [samples EXCEPT ![t] = @ \o o.add]
          /\ outcome' = [outcome EXCEPT
                           ![t] = @ \cup {[query |-> at, r |-> o.r]}]
          /\ pc' = [pc EXCEPT ![t] = IF o.r.ok THEN next ELSE "exited"]
    /\ UNCHANGED <<timestamp, idx, now, nticks>>
    /\ UNCHANGED <<collectorVars, bufferVars, channelVars, receiverVars, rd, engineVars>>

\* One provider query of the tick: outcomes holds, for each result r the
\* provider may return, the samples the tick makes of it; these are pushed
\* to the local batch, and an Err adds nothing.
Query(t, at, next, outcomes) ==
    /\ pc[t] = at
    /\ \E o \in outcomes :
          /\ samples' = [samples EXCEPT ![t] = @ \o o.add]
          /\ outcome' = [outcome EXCEPT
                           ![t] = @ \cup {[query |-> at, r |-> o.r]}]
    /\ pc' = [pc EXCEPT ![t] = next]
    /\ UNCHANGED <<timestamp, idx, now, nticks>>
    /\ UNCHANGED <<collectorVars, bufferVars, channelVars, receiverVars, rd, engineVars>>

QueryCpu(t, results) ==
    Query(t, "cpu", "gpu",
          {[r |-> r, add |-> CpuSamples(timestamp[t], r)] : r \in results})
QueryGpu(t, results) ==
    Query(t, "gpu", "memory",
          {[r |-> r, add |-> GpuSamples(timestamp[t], r)] : r \in results})
QueryMemory(t, results) ==
    Query(t, "memory", "storage",
          {[r |-> r, add |-> MemorySamples(timestamp[t], r)] :
              r \in results})
QueryStorage(t, results) ==
    Query(t, "storage", "temperature",
          {[r |-> r, add |-> StorageSamples(timestamp[t], r)] :
              r \in results})
QueryTemperature(t, results) ==
    Query(t, "temperature", "lock",
          {[r |-> r, add |-> TemperatureSamples(timestamp[t], r)] :
              r \in results})

\* Variant: the push without the eviction.
PushNoEvict(buf, sample, buffer_size) == Append(buf, sample)

\* Variant: the eviction takes the newest sample (pop_back) instead of the
\* oldest.
PushEvictNewest(buf, sample, buffer_size) ==
    LET pushed == Append(buf, sample)
    IN  IF Len(pushed) > buffer_size
        THEN SubSeq(pushed, 1, Len(pushed) - 1)
        ELSE pushed

\* buf.push_back(sample); if buf.len() > buffer_size { buf.pop_front(); }
PushEvict(buf, sample, buffer_size) ==
    LET pushed == Append(buf, sample)
    IN  IF Len(pushed) > buffer_size THEN Tail(pushed) ELSE pushed

\* buffer.write().await: the task gets the exclusive lock.
LockBuffer(t) ==
    /\ pc[t] = "lock"
    /\ bufLock = 0
    /\ \A r \in Readers : reading[r] = NoRead
    /\ bufLock' = t
    /\ idx' = [idx EXCEPT ![t] = 0]
    /\ appended' = Append(appended, [tick |-> timestamp[t], batch |-> samples[t]])
    /\ pc' = [pc EXCEPT ![t] = "append"]
    /\ UNCHANGED <<buffer, samples, timestamp, outcome, now, nticks, reading>>
    /\ UNCHANGED <<collectorVars, channelVars, receiverVars, rd, engineVars>>

\* One iteration of the append loop.
AppendSample(t) ==
    /\ pc[t] = "append"
    /\ idx[t] < Len(samples[t])
    /\ buffer' = PushEvict(buffer, samples[t][idx[t] + 1], config.buffer_size)
    /\ idx' = [idx EXCEPT ![t] = @ + 1]
    /\ UNCHANGED <<bufLock, appended, pc, samples, timestamp, outcome, now,
                   nticks, reading>>
    /\ UNCHANGED <<collectorVars, channelVars, receiverVars, rd, engineVars>>

\* Variant: the end of the append loop keeps the write guard.
KeepBuffer(t) ==
    /\ pc[t] = "append"
    /\ idx[t] = Len(samples[t])
    /\ pc' = [pc EXCEPT ![t] = "send"]
    /\ UNCHANGED <<buffer, bufLock, appended, samples, timestamp, idx,
                   outcome, now, nticks, reading>>
    /\ UNCHANGED <<collectorVars, channelVars, receiverVars, rd, engineVars>>

\* The loop is over and the write guard is dropped.
ReleaseBuffer(t) ==
    /\ pc[t] = "append"
    /\ idx[t] = Len(samples[t])
    /\ bufLock' = 0
    /\ pc' = [pc EXCEPT ![t] = "send"]
    /\ UNCHANGED <<buffer, appended, samples, timestamp, idx, outcome, now,
                   nticks, reading>>
    /\ UNCHANGED <<collectorVars, channelVars, receiverVars, rd, engineVars>>

----------------------------------------------------------------------------
(* The broadcast channel *)

ReceiverCount == Cardinality({s \in Subs : cursor[s] # -1})
\* Position of the oldest batch the channel still retains.
Oldest == tail - Len(ring)

\* Variant: a channel with backpressure: the send waits until every receiver
\* has room for the batch.
SendWhenRoom(batch) ==
    /\ \A s \in Subs : cursor[s] # -1 => tail - cursor[s] < ChannelCapacity
    /\ IF ReceiverCount = 0
       THEN UNCHANGED <<tail, ring>>
       ELSE /\ tail' = tail + 1
            /\ ring' = LET all == Append(ring, batch)
                       IN  LastN(all, Min(ChannelCapacity, Len(all)))

\* sender.send(batch): with no receiver the batch is handed back as an error
\* (which the task ignores); otherwise it is stored, the oldest retained
\* batch making room once the channel is full.  Never waits.
Send(batch) ==
    IF ReceiverCount = 0
    THEN UNCHANGED <<tail, ring>>
    ELSE /\ tail' = tail + 1
         /\ ring' = LET all == Append(ring, batch)
                    IN  LastN(all, Min(ChannelCapacity, Len(all)))

\* Variant: the batch was drained by the append loop, and what is sent is
\* the emptied vector.
PublishDrained(t) ==
    /\ pc[t] = "send"
    /\ Send(<<>>)
    /\ published' = Append(published, [tick |-> timestamp[t], batch |-> <<>>])
    /\ pc' = [pc EXCEPT ![t] = "tick"]
    /\ samples' = [samples EXCEPT ![t] = <<>>]
    /\ timestamp' = [timestamp EXCEPT ![t] = 0]
    /\ idx' = [idx EXCEPT ![t] = 0]
    /\ UNCHANGED <<outcome, now, nticks>>
    /\ UNCHANGED <<collectorVars, bufferVars, receiverVars, rd, engineVars>>

\* let _ = sender.send(samples.clone()); then the loop goes back to the tick.
Publish(t) ==
    /\ pc[t] = "send"
    /\ Send(samples[t])
    /\ published' = Append(published, [tick |-> timestamp[t], batch |-> samples[t]])
    /\ pc' = [pc EXCEPT ![t] = "tick"]
    /\ samples' = [samples EXCEPT ![t] = <<>>]
    /\ timestamp' = [timestamp EXCEPT ![t] = 0]
    /\ idx' = [idx EXCEPT ![t] = 0]
    /\ UNCHANGED <<outcome, now, nticks>>
    /\ UNCHANGED <<collectorVars, bufferVars, receiverVars, rd, engineVars>>

\* MetricsCollector::subscribe: a new receiver, which sees the batches sent
\* from now on.
subscribe(s) ==
    /\ Initialized
    /\ cursor[s] = -1
    /\ cursor' = [cursor EXCEPT ![s] = tail]
    /\ subAt' = [subAt EXCEPT ![s] = Len(published)]
    /\ UNCHANGED <<received, missed>>
    /\ UNCHANGED <<collectorVars, taskVars, bufferVars, channelVars, rd, engineVars>>

\* Receiver::recv with a batch waiting: the next batch, or Lagged(n) when the
\* receiver's next batch is no longer retained, which moves it to the oldest
\* retained batch.
recv(s) ==
    /\ cursor[s] # -1
    /\ cursor[s] < tail
    /\ IF cursor[s] < Oldest
       THEN /\ missed' = [missed EXCEPT ![s] = @ + (Oldest - cursor[s])]
            /\ cursor' = [cursor EXCEPT ![s] = Oldest]
            /\ UNCHANGED received
       ELSE /\ received' = [received EXCEPT
                              ![s] = Append(@, ring[cursor[s] - Oldest + 1])]
            /\ cursor' = [cursor EXCEPT ![s] = @ + 1]
            /\ UNCHANGED missed
    /\ UNCHANGED subAt
    /\ UNCHANGED <<collectorVars, taskVars, bufferVars, channelVars, rd, engineVars>>

----------------------------------------------------------------------------
(* Reads of the buffer *)

\* MetricsCollector::get_buffer: the whole buffer, copied under the read lock.
get_buffer(buf) == buf

\* Variant: the end of the range is exclusive.
get_metrics_before(buf, from, to) ==
    SelectSeq(buf, LAMBDA sample :
                     sample.timestamp >= from /\ sample.timestamp < to)

\* MetricsCollector::get_metrics_in_range: the filter of the buffer.
get_metrics_in_range(buf, from, to) ==
    SelectSeq(buf, LAMBDA sample :
                     sample.timestamp >= from /\ sample.timestamp <= to)

\* The get_metrics_buffer command.
get_metrics_buffer_cmd ==
    /\ Initialized
    /\ bufLock = 0
    /\ rd' = [op |-> "snapshot", start |-> 0, end |-> 0,
              value |-> get_buffer(buffer)]
    /\ UNCHANGED <<collectorVars, taskVars, bufferVars, channelVars,
                   receiverVars, engineVars>>

\* The get_metrics_in_range command.
get_metrics_in_range_cmd(from, to) ==
    /\ Initialized
    /\ bufLock = 0
    /\ rd' = [op |-> "range", start |-> from, end |-> to,
              value |-> get_metrics_in_range(buffer, from, to)]
    /\ UNCHANGED <<collectorVars, taskVars, bufferVars, channelVars,
                   receiverVars, engineVars>>

----------------------------------------------------------------------------
(* Specifications *)

SamplingIntervals == {None, Some(500)}

\* The steps of sampling task t, with the results its providers may return.
TaskStep(t, maxTicks, cpu, gpu, memory, storage) ==
    \/ TickStop(t)
    \/ TickRun(t, maxTicks)
    \/ QueryCpu(t, cpu)
    \/ QueryGpu(t, gpu)
    \/ QueryMemory(t, memory)
    \/ QueryStorage(t, storage)
    \/ QueryTemperature(t, cpu)
    \/ LockBuffer(t)
    \/ AppendSample(t)
    \/ ReleaseBuffer(t)
    \/ Publish(t)

\* The life cycle: the start and stop commands and up to MaxTasks tasks.
Next ==
    \/ start_metrics_collection(None, MaxTasks)
    \/ stop_metrics_collection
    \/ \E t \in Tasks :
          TaskStep(t, MaxTicks, FewCpuResults, FewGpuResults, FewMemoryResults,
                   FewStorageResults)

Spec == Init /\ [][Next]_vars

\* The fan-out: one sampling task, its commands, and the receivers.
NextFanout ==
    \/ start_metrics_collection(None, 1)
    \/ stop_metrics_collection
    \/ TaskStep(1, MaxTicks, FewCpuResults, FewGpuResults, FewMemoryResults,
                FewStorageResults)
    \/ \E s \in Subs : subscribe(s)
    \/ \E s \in Subs : recv(s)

SpecFanout == Init /\ [][NextFanout]_vars

\* The reads: one sampling task, its commands, and the two read commands.
NextRead ==
    \/ start_metrics_collection(None, 1)
    \/ stop_metrics_collection
    \/ TaskStep(1, MaxTicks, FewCpuResults, FewGpuResults, FewMemoryResults,
                FewStorageResults)
    \/ get_metrics_buffer_cmd
    \/ \E from \in 0..MaxQueryTime, to \in 0..MaxQueryTime :
          get_metrics_in_range_cmd(from, to)

SpecRead == Init /\ [][NextRead]_vars

\* The tick: one sampling task, its commands, every result of every provider.
NextCollect ==
    \/ start_metrics_collection(None, 1)
    \/ stop_metrics_collection
    \/ TaskStep(1, MaxCollectTicks, CpuResults, GpuResults, MemoryResults, StorageResults)

SpecCollect == Init /\ [][NextCollect]_vars

----------------------------------------------------------------------------
(* The ring buffer: C1, C2 *)

\* The samples pushed to the buffer so far, in the order of the pushes: the
\* batches whose append is over, then the part of the batch being appended.
Pushed ==
    IF bufLock = 0
    THEN Flatten([k \in 1..Len(appended) |-> appended[k].batch])
    ELSE Flatten([k \in 1..(Len(appended) - 1) |-> appended[k].batch])
         \o SubSeq(samples[bufLock], 1, idx[bufLock])

\* C1: in every reachable state the ring buffer holds at most buffer_size
\* samples, whatever the number of ticks and the sizes of their batches.
C1_BufferWithinCapacity ==
    IF Initialized THEN Len(buffer) <= config.buffer_size ELSE buffer = <<>>

\* A full buffer after more samples than it can hold were pushed.
C1_Witness ==
    /\ Initialized
    /\ Len(buffer) = config.buffer_size
    /\ Len(Pushed) > config.buffer_size

----------------------------------------------------------------------------
(* start and stop: C3, C4, C5, C6 *)

\* A step in which a start() call returns.
StartReturns ==
    /\ result'.op = "start"
    /\ result' # result \/ spawned' # spawned \/ running' # running

\* C3: start() on a running collector returns the "already running" error
\* and changes nothing but the returned value: the flag stays set, the buffer
\* and the tasks are as before and no task is spawned.  A start() that
\* succeeds finds the flag cleared and sets it, so of several start() calls
\* on a stopped collector exactly one succeeds.
C3_StartWhileRunningRejected ==
    [][StartReturns =>
         IF running
         THEN /\ result' = AlreadyRunning
              /\ running'
              /\ UNCHANGED <<spawned, pc, samples, timestamp, idx, outcome,
                             now, nticks, stopMark>>
              /\ UNCHANGED <<bufferVars, channelVars, receiverVars, rd>>
         ELSE /\ result' = StartOk
              /\ running'
              /\ spawned' = spawned + 1]_vars

\* A start() was rejected on a running collector with a task spawned.
C3_Witness ==
    /\ result = AlreadyRunning
    /\ running
    /\ spawned = 1

\* C4: start() after stop() leaves at most one task sampling: a task that
\* was running before a stop() does not begin another tick, so only the
\* task of the latest start() begins ticks.
C4_OnlyLatestTaskSamples ==
    [][\A t \in Tasks :
         (pc[t] = "tick" /\ pc'[t] = "cpu") => t = spawned]_vars

\* C5: after stop() and no later start(), at most the one tick in flight is
\* appended, and the buffer does not change after that.
C5_OneBatchAfterStop ==
    ~running => Len(appended) - stopMark <= 1

\* C6: a stop that finds the collector not running reports success, also
\* through the stop command before any start.
C6_StopNeverFails ==
    result.op = "stop" => result.ok

----------------------------------------------------------------------------
(* Reads: C7 *)

\* The positions of buf whose timestamp is in [from, to].
PositionsInRange(buf, from, to) ==
    {i \in 1..Len(buf) : from <= buf[i].timestamp /\ buf[i].timestamp <= to}

\* res is exactly the samples of buf with a timestamp in [from, to], in the
\* order of buf.
IsExactRange(res, buf, from, to) ==
    /\ Len(res) = Cardinality(PositionsInRange(buf, from, to))
    /\ \E f \in [1..Len(res) -> PositionsInRange(buf, from, to)] :
          /\ \A j, k \in 1..Len(res) : j < k => f[j] < f[k]
          /\ \A k \in 1..Len(res) : res[k] = buf[f[k]]

\* C7: a range read returns exactly the samples of the current buffer with
\* start <= timestamp <= end, in buffer order; a snapshot returns the whole
\* buffer, so the range is a sub-sequence of the snapshot of that instant;
\* neither read changes the buffer.
C7_RangeIsFilteredSnapshot ==
    [][rd' # rd =>
         /\ buffer' = buffer
         /\ rd'.op = "snapshot" => rd'.value = buffer
         /\ rd'.op = "range" =>
               IsExactRange(rd'.value, buffer, rd'.start, rd'.end)]_vars

\* A range read whose two bounds are the timestamp of the newest sample
\* returned that sample and left the older one out.
C7_Witness ==
    /\ rd.op = "range"
    /\ rd.start = rd.end
    /\ bufLock = 0
    /\ Len(buffer) = 2
    /\ buffer[1].timestamp < buffer[2].timestamp
    /\ rd.end = buffer[2].timestamp
    /\ rd.value = <<buffer[2]>>

----------------------------------------------------------------------------
(* The fan-out: C8, C10 *)

IsPrefix(p, q) == Len(p) <= Len(q) /\ p = SubSeq(q, 1, Len(p))

RECURSIVE IsSubsequence(_, _)
IsSubsequence(p, q) ==
    IF p = <<>> THEN TRUE
    ELSE IF q = <<>> THEN FALSE
    ELSE IF Head(p) = Head(q) THEN IsSubsequence(Tail(p), Tail(q))
    ELSE IsSubsequence(p, Tail(q))

\* The batches sent since receiver s subscribed, in the order of the sends.
SentSince(s) ==
    [k \in 1..(Len(published) - subAt[s]) |-> published[subAt[s] + k].batch]

\* The batches waiting in the channel for receiver s.
Waiting(s) == SubSeq(ring, cursor[s] - Oldest + 1, Len(ring))

Collecting ==
    {t \in Tasks :
        pc[t] \in {"cpu", "gpu", "memory", "storage", "temperature", "lock"}}
Appending == {t \in Tasks : pc[t] \in {"append", "send"}}

\* C8: a receiver that reads slowly or never does not hold the collector
\* back: a task that is to publish can always do so, every tick begun is
\* appended and every appended tick published whatever the receivers do,
\* a receiver that has not lagged has got the batches sent since it
\* subscribed in the order of the sends, and a receiver skips batches only
\* when it is more than the channel's capacity behind, losing its own oldest
\* batches and nothing of the other receivers.
C8_SlowSubscriberNeverBlocks ==
    /\ [](/\ \A t \in Tasks : pc[t] = "send" => ENABLED Publish(t)
          /\ nticks = Len(appended) + Cardinality(Collecting)
          /\ Len(appended) = Len(published) + Cardinality(Appending)
          /\ \A s \in Subs :
                cursor[s] # -1 =>
                   /\ Len(received[s]) + missed[s] + (tail - cursor[s])
                         = Len(SentSince(s))
                   /\ IF missed[s] = 0
                      THEN IsPrefix(received[s], SentSince(s))
                      ELSE IsSubsequence(received[s], SentSince(s)))
    /\ [][\A s \in Subs :
            missed'[s] > missed[s] =>
               /\ tail - cursor[s] > ChannelCapacity
               /\ cursor'[s] = tail - ChannelCapacity
               /\ \A o \in Subs \ {s} :
                     /\ missed'[o] = missed[o]
                     /\ received'[o] = received[o]
                     /\ cursor'[o] = cursor[o]]_vars

\* One receiver lagged and lost a batch while the other got every batch.
C8_Witness ==
    /\ missed[1] > 0
    /\ missed[2] = 0
    /\ cursor[2] # -1
    /\ Len(published) >= 2
    /\ received[2] = [k \in 1..Len(published) |-> published[k].batch]

----------------------------------------------------------------------------
(* Provider failures: C9 *)

\* The metric kinds the tick derives from each of its queries.  The
\* processor provider is queried twice: for the utilization and, at the end
\* of the tick, for the temperature.
QueryKinds(q) ==
    CASE q = "cpu" -> {"CpuUtilization", "CpuUtilizationPerCore"}
      [] q = "gpu" -> {"GpuUtilization", "GpuVramUsage"}
      [] q = "memory" -> {"MemoryUsage", "MemorySwapUsage"}
      [] q = "storage" -> {"StorageReadThroughput", "StorageWriteThroughput",
                           "StorageQueueDepth"}
      [] q = "temperature" -> {"Temperature"}

\* The kinds a successful result r of query q must put in the batch.
ExpectedKinds(q, r) ==
    CASE q = "cpu" ->
           {"CpuUtilization"}
           \cup (IF r.per_core_utilization # <<>>
                 THEN {"CpuUtilizationPerCore"} ELSE {})
      [] q = "gpu" ->
           (IF r.utilization > 0 THEN {"GpuUtilization"} ELSE {})
           \cup (IF r.vram_used_mb # None THEN {"GpuVramUsage"} ELSE {})
      [] q = "memory" ->
           {"MemoryUsage"}
           \cup (IF r.swap_used_mb # None THEN {"MemorySwapUsage"} ELSE {})
      [] q = "storage" ->
           (IF r.read_throughput_mb_per_s > 0
            THEN {"StorageReadThroughput"} ELSE {})
           \cup (IF r.write_throughput_mb_per_s > 0
                 THEN {"StorageWriteThroughput"} ELSE {})
           \cup (IF r.queue_depth # None THEN {"StorageQueueDepth"} ELSE {})
      [] q = "temperature" ->
           IF r.temperature # None THEN {"Temperature"} ELSE {}

Kinds(batch) == {batch[k].metric_type : k \in 1..Len(batch)}

QueryNames == {"cpu", "gpu", "memory", "storage", "temperature"}

\* The batch holds, of the kinds of query q, none if q failed or has not
\* run, and those of its result otherwise.
BatchMatches(batch, results) ==
    \A q \in QueryNames :
       Kinds(batch) \cap QueryKinds(q) =
          IF \E o \in results : o.query = q /\ o.r.ok
          THEN UNION {ExpectedKinds(q, o.r) : o \in {x \in results :
                                                       x.query = q /\ x.r.ok}}
          ELSE {}

\* C9: a query that fails leaves the kinds derived from it out of the tick's
\* batch and nothing else: the batch holds the samples of every query that
\* succeeded, it is appended and published all the same, and the task is
\* still in its loop, ready for the next tick: it leaves the loop only at
\* the flag check of a tick, when the collector was stopped.
C9_ProviderFailureNotFatal ==
    /\ [](\A t \in Tasks :
            /\ pc[t] \in {"gpu", "memory", "storage", "temperature", "lock",
                          "append", "send"} =>
                  BatchMatches(samples[t], outcome[t])
            /\ pc[t] \in {"append", "send"} =>
                  appended[Len(appended)].batch = samples[t]
            /\ (pc[t] = "tick" /\ outcome[t] # {}) =>
                  /\ Len(appended) = nticks
                  /\ Len(published) = nticks
                  /\ appended[nticks] = published[nticks]
                  /\ BatchMatches(published[nticks].batch, outcome[t]))
    /\ [][\A t \in Tasks :
            (pc[t] # "exited" /\ pc'[t] = "exited") =>
                pc[t] = "tick" /\ ~running]_vars

\* A tick is over in which the graphics and the storage query failed and
\* the memory query succeeded: its batch, with the memory usage and without
\* graphics and storage kinds, is appended and published.
C9_Witness ==
    /\ pc[1] = "tick"
    /\ \E o \in outcome[1] : o.query = "gpu" /\ ~o.r.ok
    /\ \E o \in outcome[1] : o.query = "storage" /\ ~o.r.ok
    /\ \E o \in outcome[1] : o.query = "memory" /\ o.r.ok
    /\ Len(published) = 1
    /\ "MemoryUsage" \in Kinds(published[1].batch)
    /\ buffer # <<>>

----------------------------------------------------------------------------
(* Numbers of the rule engine                                              *)
(*                                                                         *)
(* In the rule engine an f64 is the ratio n / d of two integers with       *)
(* d >= 0, kept in lowest terms: d > 0 is a finite number, 1/0 and -1/0    *)
(* are the infinities and 0/0 is NaN.  Rounding is left out; the special   *)
(* values behave as IEEE 754 and the Rust library say.                     *)

Sgn(x) == IF x > 0 THEN 1 ELSE IF x < 0 THEN -1 ELSE 0
Abs(x) == IF x < 0 THEN -x ELSE x

RECURSIVE GCD(_, _)
GCD(a, b) == IF b = 0 THEN a ELSE GCD(b, a % b)

\* The ratio n / d in the canonical form.
F64(n, d) ==
    IF d = 0 THEN [n |-> Sgn(n), d |-> 0]
    ELSE LET g == GCD(Abs(n), Abs(d))
         IN  [n |-> Sgn(d) * (n \div g), d |-> Abs(d) \div g]

Num(n) == F64(n, 1)
NAN == F64(0, 0)
INFINITY == F64(1, 0)
NEG_INFINITY == F64(-1, 0)

is_nan(a) == a.d = 0 /\ a.n = 0
is_infinite(a) == a.d = 0 /\ a.n # 0

\* a + b, a - b, a * b, a / b of f64.
Neg(a) == [n |-> -a.n, d |-> a.d]
Add(a, b) ==
    IF is_nan(a) \/ is_nan(b) THEN NAN
    ELSE IF is_infinite(a) /\ is_infinite(b)
         THEN (IF a.n = b.n THEN a ELSE NAN)
    ELSE IF is_infinite(a) THEN a
    ELSE IF is_infinite(b) THEN b
    ELSE F64(a.n * b.d + b.n * a.d, a.d * b.d)
Sub(a, b) == Add(a, Neg(b))
Mul(a, b) ==
    IF is_nan(a) \/ is_nan(b) THEN NAN ELSE F64(a.n * b.n, a.d * b.d)
Div(a, b) ==
    IF is_nan(a) \/ is_nan(b) THEN NAN
    ELSE IF b.d = 0 THEN (IF a.d = 0 THEN NAN ELSE Num(0))
    ELSE IF b.n = 0 THEN F64(a.n, 0)
    ELSE F64(a.n * b.d * Sgn(b.n), a.d * Abs(b.n))

\* a < b, a <= b, a > b, a >= b of f64: false when either side is NaN.
Lt(a, b) ==
    /\ ~is_nan(a)
    /\ ~is_nan(b)
    /\ IF a.d = 0 \/ b.d = 0
       THEN (IF a.d = 0 /\ b.d = 0 THEN a.n < b.n
             ELSE IF a.d = 0 THEN a.n < 0
             ELSE b.n > 0)
       ELSE a.n * b.d < b.n * a.d
Le(a, b) == ~is_nan(a) /\ ~is_nan(b) /\ ~Lt(b, a)
Gt(a, b) == Lt(b, a)
Ge(a, b) == Le(b, a)

\* f64::min and f64::max: a NaN argument is ignored.
f64_min(a, b) ==
    IF is_nan(a) THEN b ELSE IF is_nan(b) THEN a
    ELSE IF Lt(b, a) THEN b ELSE a
f64_max(a, b) ==
    IF is_nan(a) THEN b ELSE IF is_nan(b) THEN a
    ELSE IF Lt(a, b) THEN b ELSE a

\* `x as u8`: truncation toward zero, saturating at 0 and 255; NaN gives 0.
as_u8(a) ==
    IF is_nan(a) THEN 0
    ELSE IF a.d = 0 THEN (IF a.n > 0 THEN 255 ELSE 0)
    ELSE IF a.n <= 0 THEN 0
    ELSE IF a.n \div a.d > 255 THEN 255 ELSE a.n \div a.d

\* Iterator::sum::<f64>() of a sequence of f64.
RECURSIVE sum(_)
sum(vs) == IF vs = <<>> THEN Num(0) ELSE Add(Head(vs), sum(Tail(vs)))

\* fold(init, f64::max) and fold(init, f64::min).
RECURSIVE fold_max(_, _)
fold_max(init, vs) ==
    IF vs = <<>> THEN init ELSE fold_max(f64_max(init, Head(vs)), Tail(vs))
RECURSIVE fold_min(_, _)
fold_min(init, vs) ==
    IF vs = <<>> THEN init ELSE fold_min(f64_min(init, Head(vs)), Tail(vs))

\* The values of a sequence of samples (map(|m| m.value)).
values(ms) == [k \in 1..Len(ms) |-> ms[k].value]

\* sum / len as f64, the mean the detectors compute.
avg(ms) == Div(sum(values(ms)), Num(Len(ms)))
----------------------------------------------------------------------------
(* The rule engine: src-tauri/src/analysis/rules *)

CPU_HIGH_THRESHOLD == Num(85)
GPU_HIGH_THRESHOLD == Num(90)
RAM_HIGH_THRESHOLD == Num(90)
VRAM_HIGH_THRESHOLD == Num(90)
SUSTAINED_WINDOW_SECONDS == 30

PCIE_3_0_X16_MAX == Num(15760)
PCIE_SATURATION_THRESHOLD == Num(85)
DDR4_3200_DUAL_CHANNEL_MAX == Num(51200)
MEMORY_BUS_SATURATION_THRESHOLD == Num(80)
TEMP_WARNING_THRESHOLD == Num(75)
TEMP_CRITICAL_THRESHOLD == Num(85)
TEMP_PREDICTIVE_THRESHOLD == Num(70)
TEMP_RISE_RATE_THRESHOLD == Num(2)
CPU_THROTTLE_TEMP == Num(90)
CRITICAL_TEMP == Num(95)

EvidenceItem(mt, threshold, actual_value) ==
    [metric_type |-> mt, threshold |-> threshold,
     actual_value |-> actual_value]

\* A finding.  summary and details are the constant text that starts the
\* formatted string.
Bottleneck(bt, severity, evidence, summary, details) ==
    [bottleneck_type |-> bt, severity |-> severity, evidence |-> evidence,
     summary |-> summary, details |-> details]

\* A workload profile: its type and its optional threshold overrides.
ThresholdOverrides(cpu, gpu, ram, vram) ==
    [cpu_high |-> cpu, gpu_high |-> gpu, ram_high |-> ram, vram_high |-> vram]
WorkloadProfile(wt, overrides) ==
    [workload_type |-> wt, threshold_overrides |-> overrides]

\* profile.threshold_overrides.as_ref().and_then(|t| t.<field>)
override(profile, field) ==
    IF IsSome(profile.threshold_overrides)
    THEN profile.threshold_overrides[1][field]
    ELSE None

\* metrics.iter().filter(|m| m.metric_type == mt).collect()
of_type(ms, mt) == SelectSeq(ms, LAMBDA m : m.metric_type = mt)

\* What a call that may panic comes to: its value, or the unwinding.
Returned(v) == [panic |-> FALSE, value |-> v]
Unwind == [panic |-> TRUE, value |-> <<>>]

calculate_severity(actual_value, threshold) ==
    IF Le(actual_value, threshold) THEN 0
    ELSE LET excess == Sub(actual_value, threshold)
             max_excess == Sub(Num(100), threshold)
             severity_ratio == f64_min(Div(excess, max_excess), Num(1))
         IN  as_u8(Add(threshold,
                       Mul(severity_ratio, Sub(Num(100), threshold))))

\* Variant: a graphics mean of exactly 70 still counts as headroom.
detect_cpu_bottleneck_gpu_at_70(ms, threshold_override) ==
    LET cpu_metrics == of_type(ms, "CpuUtilization")
        gpu_metrics == of_type(ms, "GpuUtilization")
    IN  IF cpu_metrics = <<>> THEN None
        ELSE LET avg_cpu == avg(cpu_metrics)
                 avg_gpu == IF gpu_metrics # <<>> THEN avg(gpu_metrics)
                            ELSE Num(0)
                 threshold == UnwrapOr(threshold_override, CPU_HIGH_THRESHOLD)
             IN  IF Gt(avg_cpu, threshold) /\ Le(avg_gpu, Num(70))
                 THEN Some(Bottleneck(
                          "Cpu",
                          calculate_severity(avg_cpu, CPU_HIGH_THRESHOLD),
                          <<EvidenceItem("CpuUtilization", threshold, avg_cpu)>>,
                          "CPU-bound: Average CPU utilization is",
                          "CPU utilization averaged"))
                 ELSE None

\* Variant: the processor mean is tested against 70 whatever the threshold,
\* and the graphics mean is not looked at.
detect_cpu_bottleneck_without_headroom(ms, threshold_override) ==
    LET cpu_metrics == of_type(ms, "CpuUtilization")
    IN  IF cpu_metrics = <<>> THEN None
        ELSE LET avg_cpu == avg(cpu_metrics)
                 threshold == UnwrapOr(threshold_override, CPU_HIGH_THRESHOLD)
             IN  IF Gt(avg_cpu, Num(70))
                 THEN Some(Bottleneck(
                          "Cpu",
                          calculate_severity(avg_cpu, CPU_HIGH_THRESHOLD),
                          <<EvidenceItem("CpuUtilization", threshold, avg_cpu)>>,
                          "CPU-bound: Average CPU utilization is",
                          "CPU utilization averaged"))
                 ELSE None

detect_cpu_bottleneck(ms, threshold_override) ==
    LET cpu_metrics == of_type(ms, "CpuUtilization")
        gpu_metrics == of_type(ms, "GpuUtilization")
    IN  IF cpu_metrics = <<>> THEN None
        ELSE LET avg_cpu == avg(cpu_metrics)
                 avg_gpu == IF gpu_metrics # <<>> THEN avg(gpu_metrics)
                            ELSE Num(0)
                 threshold == UnwrapOr(threshold_override, CPU_HIGH_THRESHOLD)
             IN  IF Gt(avg_cpu, threshold) /\ Lt(avg_gpu, Num(70))
                 THEN Some(Bottleneck(
                          "Cpu",
                          calculate_severity(avg_cpu, CPU_HIGH_THRESHOLD),
                          <<EvidenceItem("CpuUtilization", threshold, avg_cpu)>>,
                          "CPU-bound: Average CPU utilization is",
                          "CPU utilization averaged"))
                 ELSE None

detect_gpu_bottleneck(ms, threshold_override) ==
    LET gpu_metrics == of_type(ms, "GpuUtilization")
        cpu_metrics == of_type(ms, "CpuUtilization")
    IN  IF gpu_metrics = <<>> THEN None
        ELSE LET avg_gpu == avg(gpu_metrics)
                 avg_cpu == IF cpu_metrics # <<>> THEN avg(cpu_metrics)
                            ELSE Num(0)
                 threshold == UnwrapOr(threshold_override, GPU_HIGH_THRESHOLD)
             IN  IF Gt(avg_gpu, threshold) /\ Lt(avg_cpu, Num(80))
                 THEN Some(Bottleneck(
                          "Gpu",
                          calculate_severity(avg_gpu, threshold),
                          <<EvidenceItem("GpuUtilization", threshold, avg_gpu)>>,
                          "GPU-bound: Average GPU utilization is",
                          "GPU utilization averaged"))
                 ELSE None

detect_vram_bottleneck(ms, threshold_override) ==
    LET vram_metrics == of_type(ms, "GpuVramUsage")
    IN  IF vram_metrics = <<>> THEN None
        ELSE LET avg_vram == avg(vram_metrics)
                 max_vram == fold_max(Num(0), values(vram_metrics))
                 threshold == UnwrapOr(threshold_override, VRAM_HIGH_THRESHOLD)
             IN  IF Gt(max_vram, Num(0)) /\ Gt(avg_vram, Num(0))
                 THEN Some(Bottleneck(
                          "Vram", 70,
                          <<EvidenceItem("GpuVramUsage", threshold, avg_vram)>>,
                          "VRAM-bound: Average VRAM usage is",
                          "VRAM usage averaged"))
                 ELSE None

\* max_by(|a, b| a.partial_cmp(b).unwrap()) compares every element of a
\* sequence of two or more with another one, and partial_cmp is None when
\* either side is NaN.
max_by_panics(vs) == Len(vs) >= 2 /\ \E k \in 1..Len(vs) : is_nan(vs[k])

Max(a, b) == IF a > b THEN a ELSE b

detect_storage_bottleneck(ms) ==
    LET queue_metrics == of_type(ms, "StorageQueueDepth")
    IN  IF queue_metrics = <<>> THEN Returned(None)
        ELSE IF max_by_panics(values(queue_metrics)) THEN Unwind
        ELSE LET max_queue == fold_max(Head(values(queue_metrics)),
                                       Tail(values(queue_metrics)))
                 avg_queue == avg(queue_metrics)
                 severity == Max(as_u8(f64_min(avg_queue, Num(100))), 50)
             IN  IF Gt(max_queue, Num(10))
                 THEN Returned(Some(Bottleneck(
                          "Storage", severity,
                          <<EvidenceItem("StorageQueueDepth", Num(10),
                                         avg_queue)>>,
                          "Storage-bound: Average I/O queue depth is",
                          "Storage I/O queue depth averaged")))
                 ELSE Returned(None)

detect_ram_bottleneck(ms, threshold_override) ==
    LET memory_metrics == of_type(ms, "MemoryUsage")
        swap_metrics == of_type(ms, "MemorySwapUsage")
    IN  IF memory_metrics = <<>> THEN None
        ELSE LET avg_memory == avg(memory_metrics)
                 has_swap_usage ==
                     /\ swap_metrics # <<>>
                     /\ \E k \in 1..Len(swap_metrics) :
                           Gt(swap_metrics[k].value, Num(0))
                 threshold == UnwrapOr(threshold_override, RAM_HIGH_THRESHOLD)
                 severity ==
                     IF has_swap_usage
                     THEN Max(as_u8(f64_min(avg_memory, Num(100))), 80)
                     ELSE calculate_severity(avg_memory, threshold)
                 evidence ==
                     <<EvidenceItem("MemoryUsage", threshold, avg_memory)>> \o
                     (IF has_swap_usage
                      THEN <<EvidenceItem("MemorySwapUsage", Num(0),
                                          avg(swap_metrics))>>
                      ELSE <<>>)
             IN  IF Gt(avg_memory, threshold) \/ has_swap_usage
                 THEN Some(Bottleneck(
                          "Ram", severity, evidence,
                          "RAM-bound: Average memory usage is",
                          IF has_swap_usage
                          THEN "Memory usage averaged, with swap usage detected"
                          ELSE "Memory usage averaged"))
                 ELSE None

\* The legacy thermal detector.
detect_thermal_throttling(ms) ==
    LET temp_metrics == of_type(ms, "Temperature")
    IN  IF temp_metrics = <<>> THEN None
        ELSE LET max_temp == fold_max(NEG_INFINITY, values(temp_metrics))
                 avg_temp == avg(temp_metrics)
                 severity ==
                     IF Ge(max_temp, CRITICAL_TEMP) THEN 100
                     ELSE IF Ge(max_temp, CPU_THROTTLE_TEMP)
                     THEN as_u8(Add(Mul(Div(Sub(max_temp, CPU_THROTTLE_TEMP),
                                            Sub(CRITICAL_TEMP,
                                                CPU_THROTTLE_TEMP)),
                                        Num(50)),
                                    Num(50)))
                     ELSE as_u8(Mul(Div(Sub(avg_temp, Num(80)),
                                        Sub(CPU_THROTTLE_TEMP, Num(80))),
                                    Num(50)))
             IN  IF Ge(max_temp, CPU_THROTTLE_TEMP)
                    \/ Ge(avg_temp, CPU_THROTTLE_TEMP)
                 THEN Some(Bottleneck(
                          "Thermal", Min(severity, 100),
                          <<EvidenceItem("Temperature", CPU_THROTTLE_TEMP,
                                         max_temp)>>,
                          "Thermal throttling: Maximum temperature reached",
                          "Temperature reached"))
                 ELSE None

\* The last element of a sequence of f64, or the default (last().unwrap_or).
last_or(vs, default) == IF vs = <<>> THEN default ELSE vs[Len(vs)]

\* count().max(1) as f64
count_max_1(ms) == Num(Max(Len(ms), 1))

detect_pcie_saturation(ms) ==
    LET pcie_metrics ==
            SelectSeq(ms, LAMBDA m : m.metric_type \in
                {"GpuUtilization", "GpuMemoryTransfer",
                 "StorageReadThroughput", "StorageWriteThroughput"})
    IN  IF pcie_metrics = <<>> THEN None
        ELSE LET avg_storage_read ==
                     last_or(values(of_type(pcie_metrics,
                                            "StorageReadThroughput")), Num(0))
                 avg_storage_write ==
                     last_or(values(of_type(pcie_metrics,
                                            "StorageWriteThroughput")), Num(0))
                 estimated_pcie_usage_mb_s ==
                     Add(avg_storage_read, avg_storage_write)
                 pcie_max_bandwidth == PCIE_3_0_X16_MAX
                 pcie_utilization_percent ==
                     Mul(Div(estimated_pcie_usage_mb_s, pcie_max_bandwidth),
                         Num(100))
                 severity ==
                     IF Ge(pcie_utilization_percent, Num(95)) THEN 90
                     ELSE IF Ge(pcie_utilization_percent, Num(90)) THEN 75
                     ELSE 60
             IN  IF Ge(pcie_utilization_percent, PCIE_SATURATION_THRESHOLD)
                 THEN Some(Bottleneck(
                          "Bandwidth", severity,
                          <<EvidenceItem(
                              "StorageReadThroughput",
                              Mul(pcie_max_bandwidth,
                                  Div(PCIE_SATURATION_THRESHOLD, Num(100))),
                              estimated_pcie_usage_mb_s)>>,
                          "PCIe bandwidth saturation detected",
                          "Estimated PCIe bandwidth usage"))
                 ELSE None

detect_memory_bus_saturation(ms) ==
    LET memory_metrics ==
            SelectSeq(ms, LAMBDA m : m.metric_type \in
                {"MemoryUsage", "MemoryReadThroughput",
                 "MemoryWriteThroughput"})
    IN  IF memory_metrics = <<>> THEN None
        ELSE LET reads == of_type(memory_metrics, "MemoryReadThroughput")
                 writes == of_type(memory_metrics, "MemoryWriteThroughput")
                 avg_read == Div(sum(values(reads)), count_max_1(reads))
                 avg_write == Div(sum(values(writes)), count_max_1(writes))
                 total_memory_bandwidth == Add(avg_read, avg_write)
                 memory_max_bandwidth == DDR4_3200_DUAL_CHANNEL_MAX
                 memory_utilization_percent ==
                     Mul(Div(total_memory_bandwidth, memory_max_bandwidth),
                         Num(100))
                 severity ==
                     IF Ge(memory_utilization_percent, Num(95)) THEN 85
                     ELSE IF Ge(memory_utilization_percent, Num(90)) THEN 70
                     ELSE 55
             IN  IF Ge(memory_utilization_percent,
                       MEMORY_BUS_SATURATION_THRESHOLD)
                 THEN Some(Bottleneck(
                          "Bandwidth", severity,
                          <<EvidenceItem(
                              "MemoryReadThroughput",
                              Mul(memory_max_bandwidth,
                                  Div(MEMORY_BUS_SATURATION_THRESHOLD,
                                      Num(100))),
                              total_memory_bandwidth)>>,
                          "Memory bus bandwidth saturation detected",
                          "Memory bus bandwidth usage"))
                 ELSE None

\* sort_by_key(|m| m.timestamp): a stable sort by timestamp.
RECURSIVE insert_by_timestamp(_, _)
insert_by_timestamp(sorted, m) ==
    IF sorted = <<>> THEN <<m>>
    ELSE IF sorted[Len(sorted)].timestamp <= m.timestamp
         THEN Append(sorted, m)
         ELSE Append(insert_by_timestamp(SubSeq(sorted, 1, Len(sorted) - 1), m),
                     sorted[Len(sorted)])
\* Variant: the samples are taken in the order given.
in_given_order(ms) == ms

RECURSIVE sort_by_timestamp(_)
sort_by_timestamp(ms) ==
    IF ms = <<>> THEN <<>>
    ELSE insert_by_timestamp(sort_by_timestamp(SubSeq(ms, 1, Len(ms) - 1)),
                             ms[Len(ms)])

detect_enhanced_thermal_bottleneck(ms) ==
    LET temp_metrics == of_type(ms, "Temperature")
    IN  IF Len(temp_metrics) < 2 THEN None
        ELSE LET sorted_temps == sort_by_timestamp(temp_metrics)
                 first_temp == sorted_temps[1]
                 last_temp == sorted_temps[Len(sorted_temps)]
                 latest_temp == last_temp.value
                 time_diff_minutes ==
                     Div(Num(last_temp.timestamp - first_temp.timestamp),
                         Num(60))
                 temp_rise_rate ==
                     IF Gt(time_diff_minutes, Num(0))
                     THEN Div(Sub(last_temp.value, first_temp.value),
                              time_diff_minutes)
                     ELSE Num(0)
                 predicted_time_to_throttle ==
                     IF Gt(temp_rise_rate, Num(0))
                     THEN Div(Sub(TEMP_CRITICAL_THRESHOLD, latest_temp),
                              temp_rise_rate)
                     ELSE INFINITY
             IN  IF Ge(latest_temp, TEMP_CRITICAL_THRESHOLD)
                 THEN Some(Bottleneck(
                          "Thermal",
                          IF Ge(latest_temp, Num(95)) THEN 95
                          ELSE IF Ge(latest_temp, Num(90)) THEN 85
                          ELSE 75,
                          <<EvidenceItem("Temperature",
                                         TEMP_CRITICAL_THRESHOLD,
                                         latest_temp)>>,
                          "Critical thermal throttling detected",
                          "Temperature (critical threshold)"))
                 ELSE IF Ge(latest_temp, TEMP_PREDICTIVE_THRESHOLD)
                         /\ Ge(temp_rise_rate, TEMP_RISE_RATE_THRESHOLD)
                 THEN Some(Bottleneck(
                          "Thermal",
                          IF Lt(predicted_time_to_throttle, Num(5)) THEN 70
                          ELSE IF Lt(predicted_time_to_throttle, Num(10))
                          THEN 55
                          ELSE 40,
                          <<EvidenceItem("Temperature",
                                         TEMP_PREDICTIVE_THRESHOLD,
                                         latest_temp)>>,
                          "Predictive thermal warning",
                          "Temperature, rising; Predicted time to throttling"))
                 ELSE IF Ge(latest_temp, TEMP_WARNING_THRESHOLD)
                 THEN Some(Bottleneck(
                          "Thermal", 50,
                          <<EvidenceItem("Temperature",
                                         TEMP_WARNING_THRESHOLD,
                                         latest_temp)>>,
                          "High temperature warning",
                          "Temperature (warning threshold)"))
                 ELSE None

\* source_component.contains("GPU"), on the labels the model uses.
SourceLabels == {"GPU 0", "GPU 1", "GPU 2", "GPU", "CPU", "Memory", "Storage"}
\* Variant: every label counts as a graphics source.
contains_anything(label) == label \in SourceLabels
contains_GPU(label) == label \in {"GPU 0", "GPU 1", "GPU 2", "GPU"}

\* The elements of a finite set, in one of the orders an iteration over a
\* HashSet may take.
RECURSIVE iter(_)
iter(S) ==
    IF S = {} THEN <<>>
    ELSE LET x == CHOOSE y \in S : TRUE IN <<x>> \o iter(S \ {x})

detect_multi_gpu_bottleneck(ms) ==
    LET gpu_metrics ==
            SelectSeq(ms, LAMBDA m : m.metric_type \in
                {"GpuUtilization", "GpuVramUsage"})
        gpu_sources ==
            {gpu_metrics[k].source_component : k \in
                {j \in 1..Len(gpu_metrics) :
                    contains_GPU(gpu_metrics[j].source_component)}}
        utilizations(source) ==
            SelectSeq(gpu_metrics, LAMBDA m :
                m.source_component = source
                /\ m.metric_type = "GpuUtilization")
        gpu_utilizations ==
            LET sources == iter({s \in gpu_sources : utilizations(s) # <<>>})
            IN  [k \in 1..Len(sources) |-> avg(utilizations(sources[k]))]
    IN  IF gpu_metrics = <<>> THEN None
        ELSE IF Cardinality(gpu_sources) < 2 THEN None
        ELSE IF Len(gpu_utilizations) < 2 THEN None
        ELSE LET max_util == fold_max(Num(0), gpu_utilizations)
                 min_util == fold_min(Num(100), gpu_utilizations)
                 utilization_spread == Sub(max_util, min_util)
             IN  IF Ge(max_util, Num(80)) /\ Ge(utilization_spread, Num(30))
                 THEN Some(Bottleneck(
                          "Gpu",
                          IF Ge(utilization_spread, Num(50)) THEN 75
                          ELSE IF Ge(utilization_spread, Num(40)) THEN 60
                          ELSE 45,
                          <<EvidenceItem("GpuUtilization", Num(80),
                                         max_util)>>,
                          "Multi-GPU workload imbalance detected",
                          "GPU utilization spread"))
                 ELSE IF \A k \in 1..Len(gpu_utilizations) :
                            Ge(gpu_utilizations[k], Num(90))
                 THEN Some(Bottleneck(
                          "Gpu", 85,
                          <<EvidenceItem(
                              "GpuUtilization", Num(90),
                              Div(sum(gpu_utilizations),
                                  Num(Len(gpu_utilizations))))>>,
                          "All GPUs saturated in multi-GPU setup",
                          "All GPUs are at average utilization"))
                 ELSE None

\* A workload rule set returns None when its list of findings is empty.
some_unless_empty(bottlenecks) ==
    IF bottlenecks = <<>> THEN None ELSE Some(bottlenecks)

detect_gaming_bottlenecks(ms, profile) ==
    LET cpu_threshold == UnwrapOr(override(profile, "cpu_high"),
                                  CPU_HIGH_THRESHOLD)
        gpu_threshold == UnwrapOr(override(profile, "gpu_high"),
                                  GPU_HIGH_THRESHOLD)
        vram_threshold == UnwrapOr(override(profile, "vram_high"),
                                   VRAM_HIGH_THRESHOLD)
    IN  some_unless_empty(
            detect_gpu_bottleneck(ms, Some(gpu_threshold))
            \o detect_cpu_bottleneck(ms, Some(cpu_threshold))
            \o detect_vram_bottleneck(ms, Some(vram_threshold)))

detect_rendering_bottlenecks(ms, profile) ==
    LET cpu_threshold == UnwrapOr(override(profile, "cpu_high"), Num(95))
        gpu_threshold == UnwrapOr(override(profile, "gpu_high"), Num(95))
        vram_threshold == UnwrapOr(override(profile, "vram_high"), Num(90))
    IN  some_unless_empty(
            detect_cpu_bottleneck(ms, Some(cpu_threshold))
            \o detect_gpu_bottleneck(ms, Some(gpu_threshold))
            \o detect_vram_bottleneck(ms, Some(vram_threshold)))

\* The "GPU-starved" rule of the AI rule set.
detect_gpu_starved(ms) ==
    LET gpu_metrics == of_type(ms, "GpuUtilization")
    IN  IF gpu_metrics = <<>> THEN None
        ELSE LET avg_gpu == avg(gpu_metrics)
                 min_gpu == fold_min(INFINITY, values(gpu_metrics))
                 max_gpu == fold_max(NEG_INFINITY, values(gpu_metrics))
                 variance == Sub(max_gpu, min_gpu)
             IN  IF Lt(avg_gpu, Num(50)) /\ Gt(variance, Num(30))
                 THEN Some(Bottleneck(
                          "Gpu",
                          as_u8(Mul(Div(Sub(Num(50), avg_gpu), Num(50)),
                                    Num(100))),
                          <<EvidenceItem("GpuUtilization", Num(50), avg_gpu)>>,
                          "GPU-starved: Average GPU utilization is",
                          "GPU utilization averaged, with variance"))
                 ELSE None

detect_ai_ml_bottlenecks(ms, profile) ==
    LET vram_threshold == UnwrapOr(override(profile, "vram_high"), Num(95))
    IN  some_unless_empty(
            detect_gpu_starved(ms)
            \o detect_vram_bottleneck(ms, Some(vram_threshold)))

detect_productivity_bottlenecks(ms, profile) ==
    LET ram_threshold == UnwrapOr(override(profile, "ram_high"),
                                  RAM_HIGH_THRESHOLD)
        storage_bottleneck == detect_storage_bottleneck(ms)
    IN  IF storage_bottleneck.panic THEN Unwind
        ELSE Returned(some_unless_empty(
                 detect_ram_bottleneck(ms, Some(ram_threshold))
                 \o storage_bottleneck.value))

\* The rule set of the profile's workload type.
profile_rules(recent_metrics, profile) ==
    IF profile.workload_type = "Gaming"
    THEN Returned(detect_gaming_bottlenecks(recent_metrics, profile))
    ELSE IF profile.workload_type = "Rendering"
    THEN Returned(detect_rendering_bottlenecks(recent_metrics, profile))
    ELSE IF profile.workload_type = "AI"
    THEN Returned(detect_ai_ml_bottlenecks(recent_metrics, profile))
    ELSE detect_productivity_bottlenecks(recent_metrics, profile)

\* The generic detectors.
generic_rules(recent_metrics) ==
    detect_cpu_bottleneck(recent_metrics, None)
    \o detect_gpu_bottleneck(recent_metrics, None)
    \o detect_ram_bottleneck(recent_metrics, None)

\* Variant: the generic detectors run beside the rule set of the profile.
workload_and_generic_rules(recent_metrics, profile) ==
    IF IsSome(profile)
    THEN LET b == profile_rules(recent_metrics, profile[1])
         IN  IF b.panic THEN Unwind
             ELSE Returned((IF IsSome(b.value) THEN b.value[1] ELSE <<>>)
                           \o generic_rules(recent_metrics))
    ELSE Returned(generic_rules(recent_metrics))

\* The rules that depend on the profile: the rule set of its workload type,
\* or the generic detectors when there is none; the findings to add.
workload_rules(recent_metrics, profile) ==
    IF IsSome(profile)
    THEN LET b == profile_rules(recent_metrics, profile[1])
         IN  IF b.panic THEN Unwind
             ELSE Returned(IF IsSome(b.value) THEN b.value[1] ELSE <<>>)
    ELSE Returned(generic_rules(recent_metrics))

\* The samples of the time window [clock - time_window_seconds, clock].
recent(ms, time_window_seconds, clock) ==
    SelectSeq(ms, LAMBDA m :
        /\ m.timestamp >= clock - time_window_seconds
        /\ m.timestamp <= clock)

\* The thermal rule: the enhanced detector, else the legacy one.
thermal_rule(recent_metrics) ==
    LET enhanced == detect_enhanced_thermal_bottleneck(recent_metrics)
    IN  IF IsSome(enhanced) THEN enhanced
        ELSE detect_thermal_throttling(recent_metrics)

\* analyze_bottlenecks, with the reading of Utc::now() as clock.
analyze_bottlenecks(ms, time_window_seconds, profile, clock) ==
    LET recent_metrics == recent(ms, time_window_seconds, clock)
        always_on == thermal_rule(recent_metrics)
                     \o detect_pcie_saturation(recent_metrics)
                     \o detect_memory_bus_saturation(recent_metrics)
                     \o detect_multi_gpu_bottleneck(recent_metrics)
        by_profile == workload_rules(recent_metrics, profile)
    IN  IF by_profile.panic THEN Unwind
        ELSE Returned([bottlenecks |-> always_on \o by_profile.value,
                       timestamp |-> clock])

\* AnalysisEngine::analyze
analyze(ms, time_window_seconds, profile, clock) ==
    analyze_bottlenecks(
        ms, UnwrapOr(time_window_seconds, SUSTAINED_WINDOW_SECONDS), profile,
        clock)

\* The analyze_bottlenecks command on the samples handed to it.  A behaviour
\* makes one call: the function keeps no state, and a later call would see
\* nothing of an earlier one.
analyze_bottlenecks_cmd(time_window_seconds, profile) ==
    /\ analysis = NoAnalysis
    /\ analysis' = [op |-> "analyze_bottlenecks",
                    time_window_seconds |-> time_window_seconds,
                    profile |-> profile,
                    returned |-> analyze(metrics, time_window_seconds,
                                         profile, now)]
    /\ UNCHANGED <<metrics, compareVars, retentionVars>>
    /\ UNCHANGED <<collectorVars, taskVars, bufferVars, channelVars,
                   receiverVars, rd>>
----------------------------------------------------------------------------
(* Specifications of the rule engine *)

\* The sequences over S of length at most n.
SeqsUpTo(S, n) == UNION {[1..k -> S] : k \in 0..n}

\* Number of samples handed to an analysis of utilization samples.
MaxUtilSamples == 3

\* Timestamps, in seconds from the clock's origin: inside the default window
\* of 30 seconds, and outside it but inside a window of 60 seconds.
WindowTimes == {-40, 0}
Windows == {None, Some(60)}

CpuValues == {60, 80, 90, 100}
GpuValues == {40, 70, 96}

UtilSamples ==
    {MetricSample(ts, "CpuUtilization", Num(v), "%", "CPU") :
        ts \in WindowTimes, v \in CpuValues}
    \cup {MetricSample(ts, "GpuUtilization", Num(v), "%", "GPU") :
        ts \in WindowTimes, v \in GpuValues}

\* Profiles whose rule set runs the processor- and the graphics-bound
\* detector, and no profile.
UtilProfiles ==
    {None,
     Some(WorkloadProfile("Gaming", None)),
     Some(WorkloadProfile("Gaming",
          Some(ThresholdOverrides(Some(Num(70)), Some(Num(60)), None, None)))),
     Some(WorkloadProfile("Rendering", None))}

InitUtil ==
    /\ Constructed
    /\ metrics \in SeqsUpTo(UtilSamples, MaxUtilSamples)
    /\ NoRuns
    /\ NoSessions

NextUtil ==
    \E w \in Windows, p \in UtilProfiles : analyze_bottlenecks_cmd(w, p)

SpecUtil == InitUtil /\ [][NextUtil]_vars

\* Number of samples handed to an analysis of the threshold rules.
MaxThresholdSamples == 3

ThresholdSamples ==
    {MetricSample(0, "CpuUtilization", Num(v), "%", "CPU") : v \in {80, 96}}
    \cup {MetricSample(0, "GpuUtilization", Num(40), "%", "GPU")}
    \cup {MetricSample(0, "MemoryUsage", Num(v), "%", "Memory") :
              v \in {50, 95}}
    \cup {MetricSample(0, "MemorySwapUsage", Num(v), "MB", "Memory") :
              v \in {0, 512}}
    \cup {MetricSample(0, "GpuVramUsage", Num(v), "MB", "GPU") :
              v \in {0, 10}}

ThresholdProfiles ==
    {None,
     Some(WorkloadProfile("Gaming", None)),
     Some(WorkloadProfile("Gaming",
          Some(ThresholdOverrides(Some(Num(70)), None, None, Some(Num(80)))))),
     Some(WorkloadProfile("AI", None)),
     Some(WorkloadProfile("Productivity", None)),
     Some(WorkloadProfile("General",
          Some(ThresholdOverrides(None, None, Some(Num(40)), None))))}

InitThreshold ==
    /\ Constructed
    /\ metrics \in SeqsUpTo(ThresholdSamples, MaxThresholdSamples)
    /\ NoRuns
    /\ NoSessions

NextThreshold ==
    \E p \in ThresholdProfiles : analyze_bottlenecks_cmd(None, p)

SpecThreshold == InitThreshold /\ [][NextThreshold]_vars

\* Number of samples handed to an analysis of temperature samples.
MaxThermalSamples == 3

\* Timestamps inside the default window of 30 seconds and one outside it.
ThermalTimes == {-60, -30, 0}
ThermalWindows == {None, Some(600)}
ThermalValues == {67, 69, 70, 75, 85}

ThermalSamples ==
    {MetricSample(ts, "Temperature", Num(v), "C", "CPU") :
        ts \in ThermalTimes, v \in ThermalValues}

\* Ten samples rising linearly over ten minutes: from 70 to 85 between the
\* first and the last sample, 600 seconds apart; and the series of the tests,
\* 70 + 1.5 i at minute i - 10 for i = 0..9.
RisingSeries ==
    {[i \in 1..10 |->
         MetricSample(-600 + (600 * (i - 1)) \div 9, "Temperature",
                      F64(70 * 9 + 15 * (i - 1), 9), "C", "CPU")],
     [i \in 1..10 |->
         MetricSample(-600 + 60 * (i - 1), "Temperature",
                      F64(70 * 2 + 3 * (i - 1), 2), "C", "CPU")]}

InitThermal ==
    /\ Constructed
    /\ metrics \in SeqsUpTo(ThermalSamples, MaxThermalSamples)
                   \cup RisingSeries
    /\ NoRuns
    /\ NoSessions

NextThermal ==
    \E w \in ThermalWindows : analyze_bottlenecks_cmd(w, None)

SpecThermal == InitThermal /\ [][NextThermal]_vars

\* Number of samples handed to an analysis of graphics samples.
MaxGpuSamples == 3

\* Utilization values whose means and spreads meet 80, 90, 30, 40 and 50.
MultiGpuValues == {40, 50, 80, 90}

MultiGpuSamples ==
    {MetricSample(0, "GpuUtilization", Num(v), "%", src) :
        v \in MultiGpuValues, src \in {"GPU 0", "GPU 1", "GPU 2", "CPU"}}
    \cup {MetricSample(0, "GpuVramUsage", Num(0), "MB", "GPU 2")}

InitMultiGpu ==
    /\ Constructed
    /\ metrics \in SeqsUpTo(MultiGpuSamples, MaxGpuSamples)
    /\ NoRuns
    /\ NoSessions

NextMultiGpu ==
    \E p \in {None, Some(WorkloadProfile("Productivity", None))} :
       analyze_bottlenecks_cmd(None, p)

SpecMultiGpu == InitMultiGpu /\ [][NextMultiGpu]_vars

\* Number of samples handed to an analysis of samples of every kind.
MaxAnalyzeSamples == 2

\* Samples of every kind a rule reads, each with a value that makes a rule
\* report; among them values outside the range of their kind: a negative
\* utilization, and a queue depth that is not a number.
AnyValues ==
    {<<"CpuUtilization", Num(95), "%", "CPU">>,
     <<"GpuUtilization", Num(95), "%", "GPU 0">>,
     <<"GpuUtilization", Num(10), "%", "GPU 1">>,
     <<"GpuUtilization", Num(-50), "%", "GPU 1">>,
     <<"GpuVramUsage", Num(4096), "MB", "GPU 0">>,
     <<"MemoryUsage", Num(95), "%", "Memory">>,
     <<"MemorySwapUsage", Num(512), "MB", "Memory">>,
     <<"StorageQueueDepth", Num(20), "", "Storage">>,
     <<"StorageQueueDepth", NAN, "", "Storage">>,
     <<"Temperature", Num(95), "C", "CPU">>,
     <<"StorageReadThroughput", Num(15000), "MB/s", "Storage">>,
     <<"MemoryReadThroughput", Num(50000), "MB/s", "Memory">>}

AnySamples ==
    {MetricSample(ts, x[1], x[2], x[3], x[4]) :
        ts \in WindowTimes, x \in AnyValues}

WorkloadTypes == {"Gaming", "Rendering", "AI", "Productivity", "General"}

AnyProfiles ==
    {None} \cup {Some(WorkloadProfile(wt, None)) : wt \in WorkloadTypes}

InitAnalyze ==
    /\ Constructed
    /\ metrics \in SeqsUpTo(AnySamples, MaxAnalyzeSamples)
    /\ NoRuns
    /\ NoSessions

NextAnalyze ==
    \E w \in Windows, p \in AnyProfiles : analyze_bottlenecks_cmd(w, p)

SpecAnalyze == InitAnalyze /\ [][NextAnalyze]_vars
----------------------------------------------------------------------------
(* The threshold rules: C12, C13 *)

Analyzed == analysis.op = "analyze_bottlenecks"

\* The samples of the window of the last analysis, and those of one kind.
Window == UnwrapOr(analysis.time_window_seconds, SUSTAINED_WINDOW_SECONDS)
InWindow ==
    SelectSeq(metrics, LAMBDA m :
        now - Window <= m.timestamp /\ m.timestamp <= now)
OfKind(kind) == SelectSeq(InWindow, LAMBDA m : m.metric_type = kind)

\* The sum of the values of samples whose values are whole numbers.
RECURSIVE Total(_)
Total(ms) == IF ms = <<>> THEN 0 ELSE Head(ms).value.n + Total(Tail(ms))

\* The mean of the samples ms is above / below the finite number t
\* (the mean of no samples is taken as 0).
MeanAbove(ms, t) == Total(ms) * t.d > t.n * Max(Len(ms), 1)
MeanBelow(ms, t) == Total(ms) * t.d < t.n * Max(Len(ms), 1)

\* The findings of the last analysis whose summary starts with the text.
Result == analysis.returned.value
Findings(summary) ==
    IF analysis.returned.panic THEN <<>>
    ELSE SelectSeq(Result.bottlenecks, LAMBDA b : b.summary = summary)
Fired(summary) == Findings(summary) # <<>>

CpuBound == "CPU-bound: Average CPU utilization is"
GpuBound == "GPU-bound: Average GPU utilization is"
RamBound == "RAM-bound: Average memory usage is"
VramBound == "VRAM-bound: Average VRAM usage is"

\* The threshold a rule takes: the profile's override, else the default of
\* the profile's rule set, else (with no profile) the global default.
Threshold(field, ruleDefault, globalDefault) ==
    IF ~IsSome(analysis.profile) THEN globalDefault
    ELSE LET o == analysis.profile[1].threshold_overrides
         IN  IF IsSome(o) /\ IsSome(o[1][field]) THEN o[1][field][1]
             ELSE ruleDefault[analysis.profile[1].workload_type]

\* A rule's default for every profile of which the rule set has the rule.
CpuThreshold ==
    Threshold("cpu_high",
              [wt \in {"Gaming", "Rendering", "AI", "Productivity", "General"}
                  |-> IF wt = "Rendering" THEN Num(95) ELSE Num(85)],
              Num(85))
GpuThreshold ==
    Threshold("gpu_high",
              [wt \in {"Gaming", "Rendering", "AI", "Productivity", "General"}
                  |-> IF wt = "Rendering" THEN Num(95) ELSE Num(90)],
              Num(90))

\* C12: the processor-bound detector fires iff there are in-window
\* processor-utilization samples whose mean is strictly above its threshold
\* and the mean of the in-window graphics utilization (0 without samples) is
\* strictly below 70; the graphics-bound detector fires iff the graphics mean
\* is strictly above its threshold and the processor mean (0 without samples)
\* is strictly below 80.
C12_UtilizationBoundIff ==
    Analyzed =>
        /\ Fired(CpuBound) <=>
              /\ OfKind("CpuUtilization") # <<>>
              /\ MeanAbove(OfKind("CpuUtilization"), CpuThreshold)
              /\ MeanBelow(OfKind("GpuUtilization"), Num(70))
        /\ Fired(GpuBound) <=>
              /\ OfKind("GpuUtilization") # <<>>
              /\ MeanAbove(OfKind("GpuUtilization"), GpuThreshold)
              /\ MeanBelow(OfKind("CpuUtilization"), Num(80))
        /\ Len(Findings(CpuBound)) <= 1
        /\ Len(Findings(GpuBound)) <= 1

\* The processor-bound detector fired on a mean above an overridden threshold
\* of 70 with the graphics mean at 60; the graphics samples of an earlier
\* time, outside the window, did not count.
C12_Witness ==
    /\ Analyzed
    /\ Fired(CpuBound)
    /\ ~Fired(GpuBound)
    /\ CpuThreshold = Num(70)
    /\ OfKind("GpuUtilization") # <<>>
    /\ Len(InWindow) < Len(metrics)

RamThreshold ==
    Threshold("ram_high",
              [wt \in {"Gaming", "Rendering", "AI", "Productivity", "General"}
                  |-> Num(90)],
              Num(90))
VramThreshold ==
    Threshold("vram_high",
              [wt \in {"Gaming", "Rendering", "AI", "Productivity", "General"}
                  |-> IF wt = "AI" THEN Num(95) ELSE Num(90)],
              Num(90))

\* Some in-window swap-usage sample has a positive value.
SwapInUse ==
    \E k \in 1..Len(OfKind("MemorySwapUsage")) :
       OfKind("MemorySwapUsage")[k].value.n > 0

\* The memory-bound detector runs in the last analysis: there is no profile,
\* or its type is Productivity or General.
RamRuleRuns ==
    \/ ~IsSome(analysis.profile)
    \/ analysis.profile[1].workload_type \in {"Productivity", "General"}

\* The mean of the samples, clamped to 100, as an integer (the fraction is
\* dropped).
MeanClamped(ms) == Min(Total(ms) \div Max(Len(ms), 1), 100)

\* C13: a finding of a threshold rule (processor-bound, graphics-bound,
\* memory-bound without swap) has the in-window mean of its metric, clamped
\* to 100, as its severity, whatever the effective threshold; a mean above
\* the threshold never gives severity 0.
C13_SeverityIsClampedMean ==
    Analyzed =>
        /\ \A k \in 1..Len(Findings(CpuBound)) :
              Findings(CpuBound)[k].severity =
                  MeanClamped(OfKind("CpuUtilization"))
        /\ \A k \in 1..Len(Findings(GpuBound)) :
              Findings(GpuBound)[k].severity =
                  MeanClamped(OfKind("GpuUtilization"))
        /\ ~SwapInUse =>
              \A k \in 1..Len(Findings(RamBound)) :
                 Findings(RamBound)[k].severity =
                     MeanClamped(OfKind("MemoryUsage"))

\* C19: when the memory-bound detector runs and some in-window swap-usage
\* sample is positive, a memory-bound finding is reported whatever the mean
\* memory usage and its threshold, also with no memory-usage sample in the
\* window, with severity max(80, min(100, mean memory usage)).
C19_SwapAlwaysReported ==
    (Analyzed /\ RamRuleRuns /\ SwapInUse) =>
        /\ Len(Findings(RamBound)) = 1
        /\ Findings(RamBound)[1].severity =
              Max(80, MeanClamped(OfKind("MemoryUsage")))

\* C20: the video-memory-bound detector reports a finding only when the mean
\* of the in-window video-memory usage samples is above its threshold (the
\* profile's override, else 90 for Gaming and Rendering and 95 for AI).
C20_VramAboveThreshold ==
    (Analyzed /\ Fired(VramBound)) =>
        /\ OfKind("GpuVramUsage") # <<>>
        /\ MeanAbove(OfKind("GpuVramUsage"), VramThreshold)
----------------------------------------------------------------------------
(* Enhanced thermal detection: C15, C16 *)

Temps == OfKind("Temperature")

\* The positions, among the temperature samples temps, of the first and of
\* the last one in time; of samples of one timestamp the one given earlier
\* comes first.
FirstTemp(temps) ==
    CHOOSE k \in 1..Len(temps) :
       \A j \in 1..Len(temps) :
          \/ temps[k].timestamp < temps[j].timestamp
          \/ temps[k].timestamp = temps[j].timestamp /\ k <= j
LastTemp(temps) ==
    CHOOSE k \in 1..Len(temps) :
       \A j \in 1..Len(temps) :
          \/ temps[j].timestamp < temps[k].timestamp
          \/ temps[j].timestamp = temps[k].timestamp /\ j <= k

\* The temperature of the sample is at least t degrees.
AtLeast(sample, t) == sample.value.n >= t * sample.value.d

\* The rise rate (last - first) / elapsed minutes between the two samples is
\* at least 2 degrees per minute; with no time elapsed there is no rate, and
\* no rise.
RisingFast(first, last) ==
    LET elapsed == last.timestamp - first.timestamp
        l == last.value
        f == first.value
    IN  /\ elapsed > 0
        /\ (l.n * f.d - f.n * l.d) * 60 >= 2 * elapsed * l.d * f.d

ThermalCritical == "Critical thermal throttling detected"
ThermalPredictive == "Predictive thermal warning"
ThermalWarning == "High temperature warning"

C16_RisingSeriesPredictive ==
    (Analyzed /\ metrics \in RisingSeries /\ Len(Temps) = 10) =>
        \E k \in 1..Len(Result.bottlenecks) :
           /\ Result.bottlenecks[k].bottleneck_type = "Thermal"
           /\ Result.bottlenecks[k].details =
                 "Temperature, rising; Predicted time to throttling"
           /\ Result.bottlenecks[k].severity \in {40, 55, 70}
----------------------------------------------------------------------------
(* Multi-graphics detection: C17 *)

\* The in-window graphics-utilization samples of a source, and the sources
\* that have some and whose label contains the graphics marker.
UtilOf(src) ==
    SelectSeq(OfKind("GpuUtilization"), LAMBDA m : m.source_component = src)
GpuSources ==
    {src \in {"GPU 0", "GPU 1", "GPU 2", "GPU"} : UtilOf(src) # <<>>}

\* The mean of source a is at least t, and at least that of source b plus d.
SourceMeanAtLeast(a, t) == Total(UtilOf(a)) >= t * Len(UtilOf(a))
SpreadAtLeast(a, b, d) ==
    Total(UtilOf(a)) * Len(UtilOf(b)) >=
        (Total(UtilOf(b)) + d * Len(UtilOf(b))) * Len(UtilOf(a))

\* The largest spread between the means of two sources is at least d.
MaxSpreadAtLeast(d) == \E a, b \in GpuSources : SpreadAtLeast(a, b, d)

Imbalance == "Multi-GPU workload imbalance detected"
AllSaturated == "All GPUs saturated in multi-GPU setup"

\* C17: the imbalance finding is reported iff at least 2 sources have
\* graphics-utilization samples, the largest of their means is at least 80
\* and the spread of the means is at least 30, with severity 75, 60 or 45
\* for a spread of at least 50, at least 40, or less; the all-saturated
\* finding iff there are at least 2 sources and every mean is at least 90,
\* with severity 85; never both, and never more than one of either.
C17_MultiGpuFindings ==
    Analyzed =>
        /\ Fired(Imbalance) <=>
              /\ Cardinality(GpuSources) >= 2
              /\ \E a \in GpuSources : SourceMeanAtLeast(a, 80)
              /\ MaxSpreadAtLeast(30)
        /\ Fired(Imbalance) =>
              Findings(Imbalance)[1].severity =
                  IF MaxSpreadAtLeast(50) THEN 75
                  ELSE IF MaxSpreadAtLeast(40) THEN 60 ELSE 45
        /\ Fired(AllSaturated) <=>
              /\ Cardinality(GpuSources) >= 2
              /\ \A a \in GpuSources : SourceMeanAtLeast(a, 90)
        /\ Fired(AllSaturated) => Findings(AllSaturated)[1].severity = 85
        /\ Len(Findings(Imbalance)) + Len(Findings(AllSaturated)) <= 1

\* Two sources at a mean of 90 gave the all-saturated finding, the sample of
\* a source without the graphics marker not counting.
C17_Witness ==
    /\ Analyzed
    /\ Fired(AllSaturated)
    /\ Cardinality(GpuSources) = 2
    /\ \E k \in 1..Len(InWindow) : InWindow[k].source_component = "CPU"
----------------------------------------------------------------------------
(* The analysis as a whole: C11, C14, C18 *)

\* C11: analyze returns a result for every sample sequence, window and
\* profile, without a panic; with no sample in the window the result has no
\* finding.
C11_AnalyzeIsTotal ==
    Analyzed =>
        /\ ~analysis.returned.panic
        /\ InWindow = <<>> => Result.bottlenecks = <<>>

\* C14: every finding of every result has a severity from 0 to 100.
C14_SeverityInRange ==
    (Analyzed /\ ~analysis.returned.panic) =>
        \A k \in 1..Len(Result.bottlenecks) :
           Result.bottlenecks[k].severity \in 0..100

GpuStarved == "GPU-starved: Average GPU utilization is"
StorageBound == "Storage-bound: Average I/O queue depth is"

\* The summaries of the findings of the always-on rules.
AlwaysOn ==
    {ThermalCritical, ThermalPredictive, ThermalWarning,
     "Thermal throttling: Maximum temperature reached",
     "PCIe bandwidth saturation detected",
     "Memory bus bandwidth saturation detected", Imbalance, AllSaturated}

\* The rules of the subset a profile selects, by the summaries of their
\* findings.
RuleSubset(profile) ==
    IF ~IsSome(profile) THEN {CpuBound, GpuBound, RamBound}
    ELSE IF profile[1].workload_type \in {"Gaming", "Rendering"}
    THEN {GpuBound, CpuBound, VramBound}
    ELSE IF profile[1].workload_type = "AI" THEN {GpuStarved, VramBound}
    ELSE {RamBound, StorageBound}

WorkloadRules == {CpuBound, GpuBound, RamBound, VramBound, GpuStarved,
                  StorageBound}

\* What the detector of a workload rule finds in the window of the last
\* analysis, with the threshold the rule takes under its profile.
Detects(rule) ==
    IF rule = CpuBound
    THEN detect_cpu_bottleneck(InWindow, Some(CpuThreshold)) # None
    ELSE IF rule = GpuBound
    THEN detect_gpu_bottleneck(InWindow, Some(GpuThreshold)) # None
    ELSE IF rule = RamBound
    THEN detect_ram_bottleneck(InWindow, Some(RamThreshold)) # None
    ELSE IF rule = VramBound
    THEN detect_vram_bottleneck(InWindow, Some(VramThreshold)) # None
    ELSE IF rule = GpuStarved
    THEN detect_gpu_starved(InWindow) # None
    ELSE detect_storage_bottleneck(InWindow).value # None

Types == {Result.bottlenecks[k].bottleneck_type :
             k \in 1..Len(Result.bottlenecks)}

\* C18: besides the always-on rules the analysis runs the rules of one
\* subset and no other: graphics-, processor- and video-memory-bound for
\* Gaming and Rendering; graphics-starved and video-memory-bound for AI;
\* memory- and storage-bound for Productivity and General; processor-,
\* graphics- and memory-bound without a profile.  So a Productivity profile
\* yields no processor finding, an AI profile no memory or storage finding,
\* and no profile no video-memory or storage finding.
C18_OneRuleSubset ==
    (Analyzed /\ ~analysis.returned.panic) =>
        /\ \A k \in 1..Len(Result.bottlenecks) :
              Result.bottlenecks[k].summary \in
                  AlwaysOn \cup RuleSubset(analysis.profile)
        /\ \A rule \in WorkloadRules :
              Fired(rule) <=>
                  rule \in RuleSubset(analysis.profile) /\ Detects(rule)
        /\ IsSome(analysis.profile) =>
              /\ analysis.profile[1].workload_type \in
                    {"Productivity", "General"} => "Cpu" \notin Types
              /\ analysis.profile[1].workload_type = "AI" =>
                    Types \cap {"Ram", "Storage"} = {}
        /\ ~IsSome(analysis.profile) => Types \cap {"Vram", "Storage"} = {}

\* A Productivity profile was given samples on which the processor-bound
\* detector reports and samples with a deep storage queue: the result has
\* the storage finding and no processor finding.
C18_Witness ==
    /\ Analyzed
    /\ ~analysis.returned.panic
    /\ IsSome(analysis.profile)
    /\ analysis.profile[1].workload_type = "Productivity"
    /\ detect_cpu_bottleneck(InWindow, None) # None
    /\ Fired(StorageBound)
    /\ ~Fired(CpuBound)
----------------------------------------------------------------------------
(* The comparison of two runs (analysis/comparison/mod.rs) *)

\* A run: a HashMap is a function of its keys.
Run(id, metrics_streams, analysis_result) ==
    [id |-> id, metrics_streams |-> metrics_streams,
     analysis_result |-> analysis_result]

BottleneckAnalysisResult(bottlenecks, ts) ==
    [bottlenecks |-> bottlenecks, timestamp |-> ts]

MetricDelta(metric_type, run1_avg, run2_avg, delta, delta_percent, unit) ==
    [metric_type |-> metric_type, run1_avg |-> run1_avg,
     run2_avg |-> run2_avg, delta |-> delta,
     delta_percent |-> delta_percent, unit |-> unit]

BottleneckChange(bottleneck_type, severity1, severity2, severity_delta, status) ==
    [bottleneck_type |-> bottleneck_type, run1_severity |-> severity1,
     run2_severity |-> severity2, severity_delta |-> severity_delta,
     status |-> status]

\* The orders in which the elements of a hash map or hash set may be
\* visited: each of them once.
Orders(S) ==
    {o \in [1..Cardinality(S) -> S] :
        \A j, k \in 1..Cardinality(S) : o[j] = o[k] => j = k}

\* Variant: a test that never finds the two equal.
never_equal(a, b) == TRUE

\* a != b of f64: true when either side is NaN.
Ne(a, b) == is_nan(a) \/ is_nan(b) \/ a # b

\* f64::abs.
f64_abs(a) == [n |-> Abs(a.n), d |-> a.d]

\* streams.values().flatten(), the streams visited in the given order.
flatten_metrics(streams, order) ==
    Flatten([k \in 1..Len(order) |-> streams[order[k]]])

\* The values of the samples of each metric type, in the order of the
\* samples.
group_metrics_by_type(ms) ==
    [mt \in {ms[k].metric_type : k \in 1..Len(ms)} |->
        values(of_type(ms, mt))]

\* The type and severity pairs of a result collected into a HashMap: of
\* several findings of a type the last one stays.
severities(res) ==
    IF ~IsSome(res) THEN <<>>
    ELSE LET bs == res[1].bottlenecks
             last(t) == CHOOSE k \in 1..Len(bs) :
                           /\ bs[k].bottleneck_type = t
                           /\ \A j \in (k + 1)..Len(bs) :
                                 bs[j].bottleneck_type # t
         IN  [t \in {bs[k].bottleneck_type : k \in 1..Len(bs)} |->
                 bs[last(t)].severity]

\* Variant: a missing key is read as the severity 0.
get_or_zero(map, key) == IF key \in DOMAIN map THEN Some(map[key]) ELSE Some(0)

\* HashMap::get(..).copied()
get(map, key) == IF key \in DOMAIN map THEN Some(map[key]) ELSE None

compare_bottlenecks(result1, result2, order) ==
    LET bottlenecks1 == severities(result1)
        bottlenecks2 == severities(result2)
        change(bottleneck_type) ==
            LET severity1 == get(bottlenecks1, bottleneck_type)
                severity2 == get(bottlenecks2, bottleneck_type)
                status ==
                    IF ~IsSome(severity1) THEN "New"
                    ELSE IF ~IsSome(severity2) THEN "Resolved"
                    ELSE IF severity2[1] < severity1[1] THEN "Improved"
                    ELSE IF severity2[1] > severity1[1] THEN "Worsened"
                    ELSE "Unchanged"
                severity_delta ==
                    IF IsSome(severity1) /\ IsSome(severity2)
                    THEN severity2[1] - severity1[1]
                    ELSE IF IsSome(severity2) THEN severity2[1]
                    ELSE IF IsSome(severity1) THEN -severity1[1]
                    ELSE 0
            IN  BottleneckChange(bottleneck_type, severity1, severity2,
                                 severity_delta, status)
    IN  [k \in 1..Len(order) |-> change(order[k])]

\* The parts of the summary, each with its count; joined by ". ", or the
\* sentence for no change when there is none.
generate_comparison_summary(metric_deltas, bottleneck_changes) ==
    LET count(status) ==
            Len(SelectSeq(bottleneck_changes,
                          LAMBDA c : c.status = status))
        significant_deltas ==
            {mt \in DOMAIN metric_deltas :
                Gt(f64_abs(metric_deltas[mt].delta_percent), Num(5))}
        part(n, text) == IF n > 0 THEN <<<<n, text>>>> ELSE <<>>
        parts ==
            part(Cardinality(significant_deltas),
                 "metric(s) changed significantly")
            \o part(count("New"), "new bottleneck(s) detected")
            \o part(count("Resolved"), "bottleneck(s) resolved")
            \o part(count("Improved"), "bottleneck(s) improved")
    IN  IF parts = <<>>
        THEN <<<<0, "No significant changes detected between runs.">>>>
        ELSE parts

\* compare_runs, with the orders in which the streams of each run and the
\* finding types are visited.
compare_runs(run1, run2, order1, order2, types) ==
    LET run1_metrics == flatten_metrics(run1.metrics_streams, order1)
        run2_metrics == flatten_metrics(run2.metrics_streams, order2)
        run1_by_type == group_metrics_by_type(run1_metrics)
        run2_by_type == group_metrics_by_type(run2_metrics)
        metric_delta(metric_type) ==
            LET run1_values == run1_by_type[metric_type]
                run2_values == run2_by_type[metric_type]
                run1_avg == Div(sum(run1_values), Num(Len(run1_values)))
                run2_avg == Div(sum(run2_values), Num(Len(run2_values)))
                delta == Sub(run2_avg, run1_avg)
                delta_percent ==
                    IF Ne(run1_avg, Num(0))
                    THEN Mul(Div(delta, run1_avg), Num(100))
                    ELSE Num(0)
                unit == of_type(run1_metrics, metric_type)[1].unit
            IN  MetricDelta(metric_type, run1_avg, run2_avg, delta,
                            delta_percent, unit)
        metric_deltas ==
            [mt \in DOMAIN run1_by_type \cap DOMAIN run2_by_type |->
                metric_delta(mt)]
        bottleneck_changes ==
            compare_bottlenecks(run1.analysis_result, run2.analysis_result,
                                types)
    IN  [run1_id |-> run1.id, run2_id |-> run2.id,
         metric_deltas |-> metric_deltas,
         bottleneck_changes |-> bottleneck_changes,
         summary |-> generate_comparison_summary(metric_deltas,
                                                 bottleneck_changes)]

\* Variant: only the finding types both results have.
common_types(run1, run2) ==
    DOMAIN severities(run1.analysis_result)
        \cap DOMAIN severities(run2.analysis_result)

\* The finding types of the two results: the keys of both maps.
all_types(run1, run2) ==
    DOMAIN severities(run1.analysis_result)
        \cup DOMAIN severities(run2.analysis_result)

\* The comparison command (commands/comparison.rs:10-15).
compare_runs_command ==
    /\ comparison = NoComparison
    /\ runs # <<>>
    /\ \E order1 \in Orders(DOMAIN runs[1].metrics_streams),
          order2 \in Orders(DOMAIN runs[2].metrics_streams),
          types \in Orders(all_types(runs[1], runs[2])) :
          comparison' = [op |-> "compare_runs",
                         returned |-> compare_runs(runs[1], runs[2], order1,
                                                   order2, types)]
    /\ UNCHANGED <<runs, metrics, analysis, retentionVars>>
    /\ UNCHANGED <<collectorVars, taskVars, bufferVars, channelVars,
                   receiverVars, rd>>
----------------------------------------------------------------------------
(* Specifications of the comparison *)

\* Number of samples in the processor stream of a run.
MaxRunSamples == 2

\* Sample values of the processor stream: a zero, a usual value and a value
\* that is not a number.
RunValues == {Num(0), Num(80), NAN}

CpuStreams ==
    SeqsUpTo({MetricSample(0, "CpuUtilization", v, "%", "CPU") :
                 v \in RunValues}, MaxRunSamples)

\* A second stream, which may hold samples of the kind of the first.
OtherStreams ==
    {<<MetricSample(0, "CpuUtilization", Num(90), "%", "CPU")>>,
     <<MetricSample(0, "GpuUtilization", Num(50), "%", "GPU 0")>>}

StreamMaps ==
    {[s \in {"cpu"} |-> c] : c \in CpuStreams}
        \cup {[s \in {"cpu", "other"} |-> IF s = "cpu" THEN c ELSE o] :
                 c \in CpuStreams, o \in OtherStreams}

Finding(bt, severity) == Bottleneck(bt, severity, <<>>, bt, bt)

\* A result with two findings of one type.
TwoOfAType ==
    Some(BottleneckAnalysisResult(<<Finding("Cpu", 90), Finding("Cpu", 50)>>,
                                  0))

DeltaRuns ==
    {Run("run", m, r) : m \in StreamMaps, r \in {None, TwoOfAType}}

InitDeltas ==
    /\ Constructed
    /\ metrics = <<>>
    /\ runs \in DeltaRuns \X DeltaRuns
    /\ NoSessions

NextCompare == compare_runs_command

SpecDeltas == InitDeltas /\ [][NextCompare]_vars

\* Number of findings in the analysis result of a run.
MaxFindings == 2

FindingTypes == {"Cpu", "Thermal"}
Severities == {50, 90}

Results ==
    {None} \cup
    {Some(BottleneckAnalysisResult(bs, 0)) :
        bs \in SeqsUpTo({Finding(bt, s) : bt \in FindingTypes,
                                          s \in Severities}, MaxFindings)}

ChangeRuns ==
    {Run("run", m, r) :
        m \in {<<>>,
               [s \in {"cpu"} |->
                   <<MetricSample(0, "CpuUtilization", Num(80), "%", "CPU")>>]},
        r \in Results}

InitChanges ==
    /\ Constructed
    /\ metrics = <<>>
    /\ runs \in ChangeRuns \X ChangeRuns
    /\ NoSessions

SpecChanges == InitChanges /\ [][NextCompare]_vars
----------------------------------------------------------------------------
(* Specification of the thermal rule's two forms *)

\* Number of samples handed to an analysis of the thermal rule's two forms.
MaxFallbackSamples == 2

\* Temperatures below every threshold of the enhanced form, at its warning
\* threshold, and above the critical threshold of the legacy form.
FallbackValues == {60, 80, 95}

FallbackSamples ==
    {MetricSample(ts, "Temperature", Num(v), "C", "CPU") :
        ts \in ThermalTimes, v \in FallbackValues}

InitFallback ==
    /\ Constructed
    /\ metrics \in SeqsUpTo(FallbackSamples, MaxFallbackSamples)
    /\ NoRuns
    /\ NoSessions

NextFallback ==
    \E w \in ThermalWindows : analyze_bottlenecks_cmd(w, None)

SpecFallback == InitFallback /\ [][NextFallback]_vars
----------------------------------------------------------------------------
(* Reads of the buffer under the shared lock *)

\* Variant: the read does not wait for the writer.
ReadUnlocked(r, op, from, to) ==
    /\ Initialized
    /\ reading[r] = NoRead
    /\ reading' = [reading EXCEPT
                     ![r] = [op |-> op, start |-> from, end |-> to,
                             value |-> <<>>]]
    /\ UNCHANGED <<buffer, bufLock, appended, rd>>
    /\ UNCHANGED <<collectorVars, taskVars, channelVars, receiverVars,
                   engineVars>>

\* buffer.read().await of get_buffer and get_metrics_in_range: the command
\* gets the shared lock, which it has to wait for while a task holds the
\* exclusive one.
ReadLock(r, op, from, to) ==
    /\ Initialized
    /\ reading[r] = NoRead
    /\ bufLock = 0
    /\ reading' = [reading EXCEPT
                     ![r] = [op |-> op, start |-> from, end |-> to,
                             value |-> <<>>]]
    /\ UNCHANGED <<buffer, bufLock, appended, rd>>
    /\ UNCHANGED <<collectorVars, taskVars, channelVars, receiverVars,
                   engineVars>>

\* The command copies what it reads, drops the read guard and returns.
ReadCopy(r) ==
    /\ reading[r] # NoRead
    /\ rd' = [reading[r] EXCEPT
                !.value = IF reading[r].op = "snapshot"
                          THEN get_buffer(buffer)
                          ELSE get_metrics_in_range(buffer, reading[r].start,
                                                    reading[r].end)]
    /\ reading' = [reading EXCEPT ![r] = NoRead]
    /\ UNCHANGED <<buffer, bufLock, appended>>
    /\ UNCHANGED <<collectorVars, taskVars, channelVars, receiverVars,
                   engineVars>>

\* The lock: one sampling task, its commands, and the readers.
NextLock ==
    \/ start_metrics_collection(None, 1)
    \/ stop_metrics_collection
    \/ TaskStep(1, MaxTicks, FewCpuResults, FewGpuResults, FewMemoryResults,
                FewStorageResults)
    \/ \E r \in Readers : ReadLock(r, "snapshot", 0, 0)
    \/ \E r \in Readers : ReadLock(r, "range", 1, 1)
    \/ \E r \in Readers : ReadCopy(r)

SpecLock == Init /\ [][NextLock]_vars

\* The start following the construction passes another interval than the one
\* the collector was constructed with.
NextInit ==
    \/ \E i \in SamplingIntervals :
          /\ Initialized =>
                UnwrapOr(i, DefaultSamplingIntervalMs) #
                    config.sampling_interval_ms
          /\ start_metrics_collection(i, MaxTasks)
    \/ stop_metrics_collection
    \/ \E t \in Tasks :
          TaskStep(t, MaxCollectTicks, FewCpuResults, FewGpuResults,
                   FewMemoryResults, FewStorageResults)

SpecInit == Init /\ [][NextInit]_vars
----------------------------------------------------------------------------
(* The retention of sessions (persistence/retention/mod.rs) *)

\* In this part the clock and the start times count days.

RetentionPolicy(retention_days, auto_cleanup_enabled, min_sessions_to_keep) ==
    [retention_days |-> retention_days,
     auto_cleanup_enabled |-> auto_cleanup_enabled,
     min_sessions_to_keep |-> min_sessions_to_keep]

\* A file of the sessions directory: its path and the start_time read from
\* it, None when the file is no .json file or has no start_time that parses.
SessionFile(path, start_time) == [path |-> path, start_time |-> start_time]

Ok(v) == [ok |-> TRUE, value |-> v]
IoErr == [ok |-> FALSE, value |-> "Io"]

\* Utc::now() - chrono::Duration::days(policy.retention_days)
cutoff_date(clock, p) == clock - p.retention_days

\* The files the scan of the directory keeps: those with a start time.
session_files(dir) == {f \in dir : IsSome(f.start_time)}

\* a.saturating_sub(b) of usize.
saturating_sub(a, b) == IF a > b THEN a - b ELSE 0

\* sort_by_key(|(time, _)| *time) leaves the files in an order in which the
\* start times do not decrease; which one, among files of one start time,
\* follows from the order in which read_dir gave them.
is_sorted(o) ==
    \A j, k \in 1..Len(o) : j < k => o[j].start_time[1] <= o[k].start_time[1]

\* The sessions_to_delete of get_retention_stats.
sessions_to_delete(dates, cutoff, p) ==
    LET total_sessions == Cardinality(dates)
        old == Cardinality({f \in dates : f.start_time[1] < cutoff})
    IN  saturating_sub(old,
                       saturating_sub(total_sessions,
                                      p.min_sessions_to_keep))

\* The smallest and the largest start time, None of no file.
oldest(dates) ==
    IF dates = {} THEN None
    ELSE Some(CHOOSE t \in {f.start_time[1] : f \in dates} :
                 \A f \in dates : t <= f.start_time[1])
newest(dates) ==
    IF dates = {} THEN None
    ELSE Some(CHOOSE t \in {f.start_time[1] : f \in dates} :
                 \A f \in dates : t >= f.start_time[1])

\* get_retention_stats, for a directory that could be read.
retention_stats(dir, p, clock) ==
    IF ~IsSome(dir)
    THEN [total_sessions |-> 0, sessions_to_delete |-> 0,
          oldest_session_date |-> None, newest_session_date |-> None]
    ELSE LET session_dates == session_files(dir[1])
         IN  [total_sessions |-> Cardinality(session_dates),
              sessions_to_delete |->
                  sessions_to_delete(session_dates, cutoff_date(clock, p), p),
              oldest_session_date |-> oldest(session_dates),
              newest_session_date |-> newest(session_dates)]

\* The number of files cleanup_old_sessions_file sets out to delete.
to_delete(files, cutoff, p) ==
    LET total_sessions == Cardinality(files)
        old == Cardinality({f \in files : f.start_time[1] < cutoff})
    IN  IF total_sessions - old < p.min_sessions_to_keep
        THEN saturating_sub(total_sessions, p.min_sessions_to_keep)
        ELSE old

\* get_retention_stats: read_dir may fail; the directory is left as it is.
get_retention_stats ==
    /\ retention.stats = None
    /\ retention.cleanup = None
    /\ \E io_ok \in BOOLEAN :
          retention' =
              [retention EXCEPT
                 !.stats = Some(IF io_ok \/ ~IsSome(sessions_dir)
                                THEN Ok(retention_stats(sessions_dir, policy,
                                                        now))
                                ELSE IoErr)]
    /\ UNCHANGED <<sessions_dir, policy, metrics, analysis, compareVars>>
    /\ UNCHANGED <<collectorVars, taskVars, bufferVars, channelVars,
                   receiverVars, rd>>

\* cleanup_old_sessions_file: read_dir may fail, and so may the removal of
\* any file; the first to_delete files in the order of their start times are
\* removed, and the removals that succeeded are counted.  The record keeps,
\* as history, the files removed and the number of removals that failed.
cleanup_old_sessions_file ==
    /\ retention.cleanup = None
    /\ \/ /\ ~IsSome(sessions_dir)
          /\ retention' = [retention EXCEPT
                             !.cleanup = Some([ok |-> TRUE, value |-> 0,
                                               removed |-> {}, failed |-> 0])]
          /\ UNCHANGED sessions_dir
       \/ /\ IsSome(sessions_dir)
          /\ retention' = [retention EXCEPT
                             !.cleanup = Some([ok |-> FALSE, value |-> "Io",
                                               removed |-> {}, failed |-> 0])]
          /\ UNCHANGED sessions_dir
       \/ /\ IsSome(sessions_dir)
          /\ \E sorted \in Orders(session_files(sessions_dir[1])),
                fails \in SUBSET session_files(sessions_dir[1]) :
                LET n == to_delete(session_files(sessions_dir[1]),
                                   cutoff_date(now, policy), policy)
                    taken == {sorted[k] : k \in 1..n}
                    removed == taken \ fails
                IN  /\ is_sorted(sorted)
                    /\ sessions_dir' = Some(sessions_dir[1] \ removed)
                    /\ retention' =
                          [retention EXCEPT
                             !.cleanup =
                                 Some([ok |-> TRUE,
                                       value |-> Cardinality(removed),
                                       removed |-> removed,
                                       failed |->
                                           Cardinality(taken \cap fails)])]
    /\ UNCHANGED <<policy, metrics, analysis, compareVars>>
    /\ UNCHANGED <<collectorVars, taskVars, bufferVars, channelVars,
                   receiverVars, rd>>

\* Number of files in the sessions directory.
MaxSessions == 3

SessionPaths == 1..MaxSessions

\* Start times, in days from the clock's origin: before and after the cutoff
\* of 2 days; None for a file the scan skips.
StartTimes == {Some(-3), Some(-1), None}

Directories ==
    {None} \cup
    {Some({SessionFile(path, times[path]) : path \in paths}) :
        paths \in SUBSET SessionPaths, times \in [SessionPaths -> StartTimes]}

Policies == {RetentionPolicy(2, FALSE, k) : k \in 0..2}

InitRetention ==
    /\ Constructed
    /\ metrics = <<>>
    /\ NoRuns
    /\ sessions_dir \in Directories
    /\ policy \in Policies

NextRetention ==
    \/ get_retention_stats
    \/ cleanup_old_sessions_file

SpecRetention == InitRetention /\ [][NextRetention]_vars
----------------------------------------------------------------------------
(* The comparison: C21, C22, C23, C24 *)

Compared == comparison.op = "compare_runs"
Deltas == comparison.returned.metric_deltas
Changes == comparison.returned.bottleneck_changes

\* The samples of a metric type in all the streams of a run.
SamplesOf(run, mt) ==
    LET streams == run.metrics_streams
    IN  of_type(Flatten([k \in 1..Cardinality(DOMAIN streams) |->
                            streams[iter(DOMAIN streams)[k]]]), mt)

TypesOf(run) ==
    {m.metric_type : m \in UNION {{s[k] : k \in 1..Len(s)} :
        s \in {run.metrics_streams[x] : x \in DOMAIN run.metrics_streams}}}

HasNaN(ms) == \E k \in 1..Len(ms) : is_nan(ms[k].value)

\* The ratio r is the quotient num / den of integers, den # 0.
IsQuotient(r, num, den) == r.d > 0 /\ r.n * den = r.d * num

\* C21: for every metric kind both runs have samples of, the comparison
\* reports the mean of the kind's samples in run 1 and in run 2, delta =
\* run-2 mean - run-1 mean, and percent = delta / run-1 mean * 100, or 0 when
\* the run-1 mean is 0.  A mean over a value that is not a number is not a
\* number, and so is what is computed from it.
C21_MetricDeltas ==
    Compared =>
        /\ DOMAIN Deltas = TypesOf(runs[1]) \cap TypesOf(runs[2])
        /\ \A mt \in DOMAIN Deltas :
              LET d == Deltas[mt]
                  s1 == SamplesOf(runs[1], mt)
                  s2 == SamplesOf(runs[2], mt)
                  t1 == Total(s1)
                  t2 == Total(s2)
                  c1 == Len(s1)
                  c2 == Len(s2)
              IN  /\ IF HasNaN(s1) THEN is_nan(d.run1_avg)
                      ELSE IsQuotient(d.run1_avg, t1, c1)
                  /\ IF HasNaN(s2) THEN is_nan(d.run2_avg)
                      ELSE IsQuotient(d.run2_avg, t2, c2)
                  /\ IF HasNaN(s1) \/ HasNaN(s2) THEN is_nan(d.delta)
                      ELSE IsQuotient(d.delta, t2 * c1 - t1 * c2, c1 * c2)
                  /\ IF ~HasNaN(s1) /\ t1 = 0 THEN d.delta_percent = Num(0)
                      ELSE IF HasNaN(s1) \/ HasNaN(s2)
                      THEN is_nan(d.delta_percent)
                      ELSE IsQuotient(d.delta_percent,
                                      100 * (t2 * c1 - t1 * c2) * Sgn(t1),
                                      c2 * Abs(t1))

\* Run 1 had the mean 80 and run 2 the mean 90 of a kind: delta 10, percent
\* 12.5.
C21_Witness ==
    /\ Compared
    /\ "CpuUtilization" \in DOMAIN Deltas
    /\ Deltas["CpuUtilization"].run1_avg = Num(80)
    /\ Deltas["CpuUtilization"].run2_avg = Num(90)
    /\ Deltas["CpuUtilization"].delta = Num(10)
    /\ Deltas["CpuUtilization"].delta_percent = F64(25, 2)

\* C22: the comparison of a run with itself has only metric deltas with
\* delta 0 and percent 0, and only transitions with status Unchanged and
\* severity_delta 0.
C22_SelfComparison ==
    (Compared /\ runs[1] = runs[2]) =>
        /\ \A mt \in DOMAIN Deltas :
              /\ Deltas[mt].delta = Num(0)
              /\ Deltas[mt].delta_percent = Num(0)
        /\ \A k \in 1..Len(Changes) :
              /\ Changes[k].status = "Unchanged"
              /\ Changes[k].severity_delta = 0

\* The findings of a type in the analysis result of a run, none when the run
\* has no result.
FindingsOf(run, t) ==
    IF IsSome(run.analysis_result)
    THEN SelectSeq(run.analysis_result[1].bottlenecks,
                   LAMBDA b : b.bottleneck_type = t)
    ELSE <<>>

FindingTypesOf(run) ==
    IF IsSome(run.analysis_result)
    THEN {run.analysis_result[1].bottlenecks[k].bottleneck_type :
             k \in 1..Len(run.analysis_result[1].bottlenecks)}
    ELSE {}

Present(run, t) == FindingsOf(run, t) # <<>>

\* The severity of a type in a run: of its findings of the type, that of the
\* last; 0 when it has none.
SeverityOf(run, t) ==
    IF Present(run, t)
    THEN FindingsOf(run, t)[Len(FindingsOf(run, t))].severity
    ELSE 0

\* C23: the comparison has one transition for each finding type of the two
\* results together; its status is New iff the type is absent in run 1 and
\* present in run 2, Resolved iff present then absent, Improved iff the
\* severity of run 2 is lower, Worsened iff higher, Unchanged iff equal;
\* severity_delta is the severity of run 2 minus that of run 1, an absent one
\* counted as 0, and the severity field of the absent side is None.
C23_Transitions ==
    Compared =>
        /\ {Changes[k].bottleneck_type : k \in 1..Len(Changes)} =
              FindingTypesOf(runs[1]) \cup FindingTypesOf(runs[2])
        /\ Len(Changes) =
              Cardinality(FindingTypesOf(runs[1]) \cup FindingTypesOf(runs[2]))
        /\ \A k \in 1..Len(Changes) :
              LET c == Changes[k]
                  t == c.bottleneck_type
                  in1 == Present(runs[1], t)
                  in2 == Present(runs[2], t)
                  s1 == SeverityOf(runs[1], t)
                  s2 == SeverityOf(runs[2], t)
              IN  /\ c.status = "New" <=> ~in1 /\ in2
                  /\ c.status = "Resolved" <=> in1 /\ ~in2
                  /\ c.status = "Improved" <=> in1 /\ in2 /\ s2 < s1
                  /\ c.status = "Worsened" <=> in1 /\ in2 /\ s2 > s1
                  /\ c.status = "Unchanged" <=> in1 /\ in2 /\ s2 = s1
                  /\ c.severity_delta = s2 - s1
                  /\ c.run1_severity = (IF in1 THEN Some(s1) ELSE None)
                  /\ c.run2_severity = (IF in2 THEN Some(s2) ELSE None)

\* A type both results have improved and a type only run 1 has was resolved.
C23_Witness ==
    /\ Compared
    /\ \E j, k \in 1..Len(Changes) :
          /\ Changes[j].status = "Improved"
          /\ Changes[j].severity_delta = -40
          /\ Changes[k].status = "Resolved"
          /\ Changes[k].run2_severity = None

\* C24: a run without an analysis result has no finding type: when both runs
\* have none there is no transition; when only run 1 has none every finding
\* type of run 2 is New, when only run 2 has none every finding type of run 1
\* is Resolved; and the metric deltas are computed all the same.
C24_MissingResult ==
    LET missing1 == ~IsSome(runs[1].analysis_result)
        missing2 == ~IsSome(runs[2].analysis_result)
        types == {Changes[k].bottleneck_type : k \in 1..Len(Changes)}
    IN  (Compared /\ (missing1 \/ missing2)) =>
           /\ missing1 /\ missing2 => Changes = <<>>
           /\ missing1 /\ ~missing2 =>
                 /\ types = FindingTypesOf(runs[2])
                 /\ \A k \in 1..Len(Changes) : Changes[k].status = "New"
           /\ ~missing1 /\ missing2 =>
                 /\ types = FindingTypesOf(runs[1])
                 /\ \A k \in 1..Len(Changes) : Changes[k].status = "Resolved"
           /\ DOMAIN Deltas = TypesOf(runs[1]) \cap TypesOf(runs[2])

\* Run 1 had no result and run 2 a result with findings: they are New, and a
\* metric delta was computed.
C24_Witness ==
    /\ Compared
    /\ ~IsSome(runs[1].analysis_result)
    /\ Len(Changes) = 2
    /\ \A k \in 1..Len(Changes) : Changes[k].status = "New"
    /\ "CpuUtilization" \in DOMAIN Deltas
----------------------------------------------------------------------------
(* The thermal rule's two forms: C25 *)

ThermalLegacy == "Thermal throttling: Maximum temperature reached"

\* C25: the result of an analysis whose window has 2 or more temperature
\* samples has no finding of the legacy thermal form, and every result has at
\* most one thermal finding.
C25_LegacyOnlyWithoutEnhanced ==
    Analyzed =>
        /\ Len(Temps) >= 2 => ~Fired(ThermalLegacy)
        /\ Len(SelectSeq(Result.bottlenecks,
                         LAMBDA b : b.bottleneck_type = "Thermal")) <= 1
----------------------------------------------------------------------------
(* Processor-bound against graphics-bound: C29 *)

\* The last analysis ran with the default thresholds: without a profile, or
\* with a Gaming or Rendering profile that has no threshold overrides.
DefaultThresholds ==
    \/ ~IsSome(analysis.profile)
    \/ /\ analysis.profile[1].workload_type \in {"Gaming", "Rendering"}
       /\ ~IsSome(analysis.profile[1].threshold_overrides)

\* C29: with the default thresholds one analysis does not report both a
\* processor-bound and a graphics-bound finding; the thresholds are then at
\* least 85 and 90.
C29_CpuGpuExclusive ==
    (Analyzed /\ DefaultThresholds) =>
        /\ ~(Fired(CpuBound) /\ Fired(GpuBound))
        /\ Ge(CpuThreshold, Num(85))
        /\ Ge(GpuThreshold, Num(90))

\* With the default thresholds, the window had processor and graphics samples
\* and the graphics-bound finding was reported alone.
C29_Witness ==
    /\ Analyzed
    /\ DefaultThresholds
    /\ OfKind("CpuUtilization") # <<>>
    /\ OfKind("GpuUtilization") # <<>>
    /\ Fired(GpuBound)
    /\ ~Fired(CpuBound)
----------------------------------------------------------------------------
(* The buffer's lock: C26, C27 *)

QueryPositions == {"cpu", "gpu", "memory", "storage", "temperature"}

\* C26: a sampling task holds the exclusive lock of the buffer only in the
\* append step of a tick, after the provider queries of the tick and before
\* the batch is published; readers hold the lock only while no task does; and
\* while every task is outside the lock, neither asking for it nor holding
\* it, so also during the provider queries, a read gets the lock at once,
\* whatever the other readers hold.
C26_LockOnlyForAppend ==
    /\ \A t \in Tasks : bufLock = t => pc[t] = "append"
    /\ (\E r \in Readers : reading[r] # NoRead) => bufLock = 0
    /\ (Initialized /\ \A t \in Tasks : pc[t] \notin {"lock", "append"}) =>
          \A r \in Readers :
             reading[r] = NoRead => ENABLED ReadLock(r, "snapshot", 0, 0)

\* Two reads held the shared lock at once while the task was waiting for a
\* provider.
C26_Witness ==
    /\ pc[1] \in QueryPositions
    /\ buffer # <<>>
    /\ \A r \in Readers : reading[r] # NoRead

\* The buffer after the first k batches were appended, with the eviction.
BufferAfter(k) ==
    LET all == Flatten([j \in 1..k |-> appended[j].batch])
    IN  LastN(all, Min(Len(all), config.buffer_size))

\* C27: what a snapshot returns is the buffer as it was after a whole number
\* of batches, and what a range read returns is the filter of such a buffer.
C27_ReadsSeeWholeBatches ==
    /\ rd.op = "snapshot" =>
          \E k \in 0..Len(appended) : rd.value = BufferAfter(k)
    /\ rd.op = "range" =>
          \E k \in 0..Len(appended) :
             rd.value = get_metrics_in_range(BufferAfter(k), rd.start, rd.end)

\* A snapshot returned the buffer after the first batch, of two samples, and
\* the task has appended the second batch since.
C27_Witness ==
    /\ rd.op = "snapshot"
    /\ Len(appended) = 2
    /\ bufLock = 0
    /\ Len(appended[1].batch) = 2
    /\ rd.value = BufferAfter(1)
    /\ rd.value # buffer
----------------------------------------------------------------------------
(* The process-wide collector: C28 *)

\* C28: the collector is constructed once: a start command that finds it
\* constructed leaves it and its config as they are, whatever interval the
\* command passes; every task samples at the interval of that config; and a
\* start or a stop leaves the contents of the buffer as they are.
C28_ConstructedOnce ==
    /\ [](\A t \in Tasks :
             pc[t] # "unspawned" =>
                interval[t] = config.sampling_interval_ms)
    /\ [][/\ Initialized => METRICS_COLLECTOR' = METRICS_COLLECTOR
          /\ (running' # running \/ spawned' # spawned) =>
                buffer' = buffer]_vars

\* After a stop, a start command that passed another interval has spawned a
\* second task: it samples at the interval of the first command, and the
\* buffer still has the samples of the first task.
C28_Witness ==
    /\ spawned = 2
    /\ running
    /\ result = StartOk
    /\ pc[2] = "tick"
    /\ interval[2] = interval[1]
    /\ buffer # <<>>
----------------------------------------------------------------------------
(* The retention: C30 *)

\* Both calls were made on one directory with one policy, both returned Ok,
\* and every removal succeeded.
BothReturned ==
    /\ IsSome(retention.stats)
    /\ IsSome(retention.cleanup)
    /\ retention.stats[1].ok
    /\ retention.cleanup[1].ok
    /\ retention.cleanup[1].failed = 0

\* C30: the sessions_to_delete that get_retention_stats reports is the number
\* of sessions cleanup_old_sessions_file deletes for the same directory and
\* policy when every removal succeeds.
C30_StatsMatchCleanup ==
    BothReturned =>
        retention.stats[1].value.sessions_to_delete =
            retention.cleanup[1].value

====
